---- MODULE Spec2Model ----
(***************************************************************************)
(* A model of datalookup (src/datalookup): the Value model (fields.py),    *)
(* the Record (Node) and the Record-Set (Dataset) of __init__.py, the      *)
(* predicate registry (utils.py) and the predicates (lookup.py).           *)
(*                                                                         *)
(* Python strings are modelled as sequences of one-character strings, so   *)
(* that str.rpartition, str.startswith, str.split, str.strip and           *)
(* str.replace act on characters as they do in the code.                   *)
(***************************************************************************)
EXTENDS Integers, Sequences, FiniteSets, TLC

VARIABLES
    seed,      \* the order in which this process iterates a set of strings
    store,     \* the Record-Set under test: a Dataset object (tree of objects)
    loaded,    \* the Record-Set as it was constructed
    call,      \* the last call made on the Record-Set and how it ended
    prev,      \* the call before it, when the two are made back to back
    raw,       \* the decoded input tree the objects are built from
    parsed     \* what values() or _parser_filters last returned

vars == <<seed, store, loaded, call, prev, raw, parsed>>

-----------------------------------------------------------------------------
(* Bounds of the model *)

MaxInt == 2
MaxColl == 2
MaxNodes == 2
MaxSeed == 1

-----------------------------------------------------------------------------
(* Strings *)

\* utils.py: LOOKUP_SEP = "__"
LOOKUP_SEP == <<"_", "_">>
REPR_OUTPUT_SIZE == 20

Min2(a, b) == IF a < b THEN a ELSE b

\* s[i:i+len(p)] == p  (i is 1-based here)
OccursAt(s, p, i) ==
    /\ i >= 1
    /\ i + Len(p) - 1 =< Len(s)
    /\ SubSeq(s, i, i + Len(p) - 1) = p

\* str.startswith
StartsWith(s, p) == OccursAt(s, p, 1)

\* str.endswith
EndsWith(s, p) == OccursAt(s, p, Len(s) - Len(p) + 1)

\* str.find, 1-based; 0 when p does not occur
RECURSIVE FindFrom(_, _, _)
FindFrom(s, p, i) ==
    IF i + Len(p) - 1 > Len(s) THEN 0
    ELSE IF OccursAt(s, p, i) THEN i
    ELSE FindFrom(s, p, i + 1)

Find(s, p) == FindFrom(s, p, 1)

\* p in s
Contains(s, p) == Find(s, p) # 0

\* str.rfind, 1-based; 0 when p does not occur
RECURSIVE RFindFrom(_, _, _)
RFindFrom(s, p, i) ==
    IF i < 1 THEN 0
    ELSE IF OccursAt(s, p, i) THEN i
    ELSE RFindFrom(s, p, i - 1)

RFind(s, p) == RFindFrom(s, p, Len(s) - Len(p) + 1)

\* str.rpartition(p): <<head, sep, tail>>, split at the last occurrence of p
RPartition(s, p) ==
    LET i == RFind(s, p) IN
    IF i = 0
    THEN << <<>>, <<>>, s >>
    ELSE << SubSeq(s, 1, i - 1), p, SubSeq(s, i + Len(p), Len(s)) >>

\* str.split(sep): the pieces between the non-overlapping occurrences of sep,
\* found from the left
RECURSIVE Split(_, _)
Split(s, sep) ==
    LET i == Find(s, sep) IN
    IF i = 0
    THEN << s >>
    ELSE << SubSeq(s, 1, i - 1) >> \o Split(SubSeq(s, i + Len(sep), Len(s)), sep)

\* str.lstrip(chars) / str.rstrip(chars) / str.strip(chars): chars is a set of
\* characters, each removed from the end(s) as long as it is there
RECURSIVE LStrip(_, _)
LStrip(s, chars) ==
    IF s # <<>> /\ \E k \in 1..Len(chars) : chars[k] = Head(s)
    THEN LStrip(Tail(s), chars)
    ELSE s

RECURSIVE RStrip(_, _)
RStrip(s, chars) ==
    IF s # <<>> /\ \E k \in 1..Len(chars) : chars[k] = s[Len(s)]
    THEN RStrip(SubSeq(s, 1, Len(s) - 1), chars)
    ELSE s

Strip(s, chars) == RStrip(LStrip(s, chars), chars)

\* str.replace(old, "", 1): the first occurrence of old removed
RemoveFirst(s, old) ==
    LET i == Find(s, old) IN
    IF i = 0
    THEN s
    ELSE SubSeq(s, 1, i - 1) \o SubSeq(s, i + Len(old), Len(s))

\* a + LOOKUP_SEP + b
Join(a, b) == a \o LOOKUP_SEP \o b

-----------------------------------------------------------------------------
(* Decoded input: JSON-like values.  Every value is a record [t, n, items]: *)
(* t is the Python type, n the number of an int or bool, items the          *)
(* characters of a str, the elements of a list or tuple, or the             *)
(* <<key, value>> entries of a dict in insertion order.                     *)

PyInt(k) == [t |-> "int", n |-> k, items |-> <<>>]
PyBool(k) == [t |-> "bool", n |-> k, items |-> <<>>]
PyNone == [t |-> "NoneType", n |-> 0, items |-> <<>>]
PyStr(s) == [t |-> "str", n |-> 0, items |-> s]
PyList(xs) == [t |-> "list", n |-> 0, items |-> xs]
PyTuple(xs) == [t |-> "tuple", n |-> 0, items |-> xs]
PyDict(kvs) == [t |-> "dict", n |-> 0, items |-> kvs]

\* isinstance(v, dict)
IsDict(v) == v.t = "dict"

\* all([isinstance(d, dict) for d in value])
AllDicts(xs) == \A i \in 1..Len(xs) : IsDict(xs[i])

-----------------------------------------------------------------------------
(* Objects.  A Field is [cls, protected_name__, value]; its value is the    *)
(* decoded scalar (ValueField), a sequence of Fields (ArrayField), a Node   *)
(* (NodeField) or a Dataset (DatasetField).  A Node is [fields,             *)
(* on_cascade], fields being the OrderedDict's values in order (each keyed  *)
(* by its own name).  A Dataset is [nodes].                                 *)
(* A call that may raise returns [exc, obj]: exc is "none" or the name of   *)
(* the exception, obj the result (or the receiver as the raise left it).    *)

NoExc == "none"

Ok(x) == [exc |-> NoExc, obj |-> x]
Raise(e, x) == [exc |-> e, obj |-> x]

MkField(cls, name, value) == [cls |-> cls, protected_name__ |-> name, value |-> value]
MkNode(fields, flag) == [fields |-> fields, on_cascade |-> flag]
MkDataset(nodes) == [nodes |-> nodes]

\* The names of the methods of Field that the code calls on a field object and
\* that a field of that name hides: Field.set_value stores the value with
\* setattr(self, self.get_name(), value), in the instance's own attributes.
sDeserialize == <<"d", "e", "s", "e", "r", "i", "a", "l", "i", "z", "e">>

\* Field._check_field_name
check_field_name(name) ==
    IF EndsWith(name, LOOKUP_SEP) \/ Contains(name, LOOKUP_SEP)
    THEN "NameError"
    ELSE NoExc

\* Field.get_name
get_name(field) == field.protected_name__

\* Field.get_value (no field of the model is named get_value)
get_value(field) == field.value

\* The first exception of a sequence of results, "none" if there is none
RECURSIVE FirstExc(_)
FirstExc(rs) ==
    IF rs = <<>> THEN NoExc
    ELSE IF Head(rs).exc # NoExc THEN Head(rs).exc
    ELSE FirstExc(Tail(rs))

Objs(rs) == [i \in 1..Len(rs) |-> rs[i].obj]

RECURSIVE get_field_class(_, _)
RECURSIVE Node_new(_)
RECURSIVE Dataset_new(_)
RECURSIVE Field_deserialize(_)
RECURSIVE Node_values(_)
RECURSIVE Dataset_values(_)

\* Node.get_field: the position of the field of that name, 0 for FieldNotFound
FieldIndex(node, name) ==
    IF \E i \in 1..Len(node.fields) : get_name(node.fields[i]) = name
    THEN CHOOSE i \in 1..Len(node.fields) :
            /\ get_name(node.fields[i]) = name
            /\ \A j \in 1..(i - 1) : get_name(node.fields[j]) # name
    ELSE 0

\* Node.get_field when no field has the name: FieldNotFound, after its message
\* has formatted self.values()
get_field_exc(node) ==
    LET raised(r) == IF r.exc # NoExc THEN r.exc ELSE "FieldNotFound"
    IN raised(Node_values(node))

\* Names of Field's own attributes that Field.__init__ uses after set_value has
\* stored the value with setattr(self, self.get_name(), value)
sProtectedName == <<"p", "r", "o", "t", "e", "c", "t", "e", "d", "_", "n", "a", "m", "e", "_", "_">>
sGetName == <<"g", "e", "t", "_", "n", "a", "m", "e">>
sCheckFieldName == <<"_", "c", "h", "e", "c", "k", "_", "f", "i", "e", "l", "d", "_", "n", "a", "m", "e">>

\* What getattr(self, self.protected_name__) finds when protected_name__ was
\* replaced by the field's value: no attribute of that name, or a method of Field
NoAttribute == [t |-> "unset", n |-> 0, items |-> <<>>]

\* Field._check_field_name on a field named protected_name__: get_name()
\* returns the stored value, and .endswith is looked up on it.  A str is
\* checked as a name; a Node answers through Node.__getattr__ (the value of its
\* field endswith, which is not callable, or AttributeError for FieldNotFound);
\* anything else has no endswith.
check_stored_value(cls, value) ==
    IF cls = "ValueField" /\ value.t = "str" THEN check_field_name(value.items)
    ELSE IF cls = "NodeField"
    THEN IF FieldIndex(value, <<"e", "n", "d", "s", "w", "i", "t", "h">>) # 0 THEN "TypeError"
         ELSE LET caught(e) == IF e = "FieldNotFound" THEN "AttributeError" ELSE e
              IN caught(get_field_exc(value))
    ELSE "AttributeError"

\* Field.__init__ after the class is chosen: set_value (validate, serialize,
\* setattr) and then _check_field_name.  ser is the result of serialize.
\* setattr hides _check_field_name or get_name behind a value that is not
\* callable when the field has that name, and replaces protected_name__ when
\* the field is named protected_name__.
Field_init(cls, name, validate, ser) ==
    IF validate # NoExc THEN Raise(validate, MkField(cls, name, PyNone))
    ELSE IF ser.exc # NoExc THEN Raise(ser.exc, MkField(cls, name, PyNone))
    ELSE IF name = sCheckFieldName \/ name = sGetName
    THEN Raise("TypeError", MkField(cls, name, ser.obj))
    ELSE IF name = sProtectedName
    THEN LET checked(e) ==
                 IF e # NoExc THEN Raise(e, MkField(cls, name, ser.obj))
                 ELSE Ok(MkField(cls, ser.obj.items, NoAttribute))
         IN checked(check_stored_value(cls, ser.obj))
    ELSE IF check_field_name(name) # NoExc
         THEN Raise(check_field_name(name), MkField(cls, name, ser.obj))
    ELSE Ok(MkField(cls, name, ser.obj))

\* ArrayField.validate / DatasetField.validate: a tuple is not a list
ValidateList(value) == IF value.t = "list" THEN NoExc ELSE "TypeError"

\* ArrayField.serialize
ArrayField_serialize(name, value) ==
    LET serialized(rs) ==
            IF FirstExc(rs) # NoExc THEN Raise(FirstExc(rs), <<>>) ELSE Ok(Objs(rs))
    IN serialized([i \in 1..Len(value.items) |-> get_field_class(name, value.items[i])])

\* fields.get_field_class
get_field_class(name, value) ==
    IF IsDict(value)
    THEN Field_init("NodeField", name, NoExc, Node_new(value))
    ELSE IF value.t \in {"list", "tuple"}
    THEN IF AllDicts(value.items)
         THEN Field_init("DatasetField", name, ValidateList(value),
                         IF ValidateList(value) = NoExc
                         THEN Dataset_new(value) ELSE Raise("TypeError", PyNone))
         ELSE Field_init("ArrayField", name, ValidateList(value),
                         IF ValidateList(value) = NoExc
                         THEN ArrayField_serialize(name, value)
                         ELSE Raise("TypeError", PyNone))
    ELSE Field_init("ValueField", name, NoExc, Ok(value))

\* Node.__init__ / Node._populate
Node_new(data) ==
    IF ~IsDict(data) THEN Raise("ValueError", MkNode(<<>>, FALSE))
    ELSE LET populated(rs) ==
                 IF FirstExc(rs) # NoExc
                 THEN Raise(FirstExc(rs), MkNode(<<>>, FALSE))
                 ELSE Ok(MkNode(Objs(rs), FALSE))
         IN populated([i \in 1..Len(data.items) |->
                          get_field_class(data.items[i][1], data.items[i][2])])

\* Dataset.__init__ / Dataset._populate
Dataset_new(data) ==
    IF IsDict(data)
    THEN LET appended(r) ==
                 IF r.exc # NoExc THEN Raise(r.exc, MkDataset(<<>>))
                 ELSE Ok(MkDataset(<< r.obj >>))
         IN appended(Node_new(data))
    ELSE IF data.t = "list"
    THEN IF ~AllDicts(data.items) THEN Raise("ValueError", MkDataset(<<>>))
         ELSE LET populated(rs) ==
                      IF FirstExc(rs) # NoExc THEN Raise(FirstExc(rs), MkDataset(<<>>))
                      ELSE Ok(MkDataset(Objs(rs)))
              IN populated([i \in 1..Len(data.items) |-> Node_new(data.items[i])])
    ELSE Raise("ValueError", MkDataset(<<>>))

-----------------------------------------------------------------------------
(* values() and deserialize()                                               *)

\* field.deserialize() as the code calls it: the attribute looked up on the
\* field object.  For a field named deserialize it is the stored value, which
\* is not callable.
\* ValueField.deserialize, ArrayField.deserialize, RelatedField.deserialize
Field_deserialize(field) ==
    IF get_name(field) = sDeserialize THEN Raise("TypeError", PyNone)
    ELSE IF field.cls = "ValueField" THEN Ok(get_value(field))
    ELSE IF field.cls = "ArrayField"
    THEN LET deserialized(rs) ==
                 IF FirstExc(rs) # NoExc THEN Raise(FirstExc(rs), PyNone)
                 ELSE Ok(PyList(Objs(rs)))
         IN deserialized([i \in 1..Len(get_value(field)) |->
                             Field_deserialize(get_value(field)[i])])
    ELSE IF field.cls = "NodeField" THEN Node_values(get_value(field))
    ELSE Dataset_values(get_value(field))

\* Node.values: data[key] = field.deserialize()
Node_values(node) ==
    LET deserialized(rs) ==
            IF FirstExc(rs) # NoExc THEN Raise(FirstExc(rs), PyNone)
            ELSE Ok(PyDict([i \in 1..Len(node.fields) |->
                            << get_name(node.fields[i]), rs[i].obj >>]))
    IN deserialized([i \in 1..Len(node.fields) |-> Field_deserialize(node.fields[i])])

\* Dataset.values
Dataset_values(dataset) ==
    LET deserialized(rs) ==
            IF FirstExc(rs) # NoExc THEN Raise(FirstExc(rs), PyNone)
            ELSE Ok(PyList(Objs(rs)))
    IN deserialized([i \in 1..Len(dataset.nodes) |-> Node_values(dataset.nodes[i])])

-----------------------------------------------------------------------------
(* The predicate registry (utils.py RegisterLookupMixin) as lookup.py       *)
(* leaves it when the package is imported.                                  *)

sExact == <<"e", "x", "a", "c", "t">>
sIexact == <<"i", "e", "x", "a", "c", "t">>
sRegex == <<"r", "e", "g", "e", "x">>
sIregex == <<"i", "r", "e", "g", "e", "x">>
sIn == <<"i", "n">>
sRange == <<"r", "a", "n", "g", "e">>
sIsnull == <<"i", "s", "n", "u", "l", "l">>
sGt == <<"g", "t">>
sGte == <<"g", "t", "e">>
sLt == <<"l", "t">>
sLte == <<"l", "t", "e">>
sContains == <<"c", "o", "n", "t", "a", "i", "n", "s">>
sIcontains == <<"i", "c", "o", "n", "t", "a", "i", "n", "s">>
sStartswith == <<"s", "t", "a", "r", "t", "s", "w", "i", "t", "h">>
sIstartswith == <<"i", "s", "t", "a", "r", "t", "s", "w", "i", "t", "h">>
sEndswith == <<"e", "n", "d", "s", "w", "i", "t", "h">>
sIendswith == <<"i", "e", "n", "d", "s", "w", "i", "t", "h">>
sContainedBy == <<"c", "o", "n", "t", "a", "i", "n", "e", "d", "_", "b", "y">>
sOverlap == <<"o", "v", "e", "r", "l", "a", "p">>
sLen == <<"l", "e", "n">>

\* cls.class_lookups: the <<lookup_name, Lookup class>> pairs registered on the
\* class itself by the @X.register_lookup decorators of lookup.py
class_lookups(cls) ==
    IF cls = "Field"
    THEN { <<sExact, "Exact">>, <<sIexact, "IExact">>, <<sRegex, "Regex">>,
           <<sIregex, "IRegex">>, <<sIn, "In">>, <<sRange, "Range">>,
           <<sIsnull, "IsNull">>, <<sGt, "GreaterThan">>,
           <<sGte, "GreaterThanOrEqual">>, <<sLt, "LessThan">>,
           <<sLte, "LessThanOrEqual">>, <<sContains, "Contains">>,
           <<sIcontains, "IContains">>, <<sStartswith, "StartsWith">>,
           <<sIstartswith, "IStartsWith">>, <<sEndswith, "EndsWith">>,
           <<sIendswith, "IEndsWith">> }
    ELSE IF cls = "ArrayField"
    THEN { <<sContains, "ArrayContains">>, <<sContainedBy, "ArrayContainedBy">>,
           <<sOverlap, "ArrayOverlap">>, <<sLen, "ArrayLength">>,
           <<sIn, "ArrayInLookup">> }
    ELSE IF cls = "DatasetField"
    THEN { <<sIn, "DatasetInLookup">> }
    ELSE {}

\* inspect.getmro(cls), most specific first (the classes of fields.py)
mro(cls) ==
    IF cls = "ValueField" THEN <<"ValueField", "Field">>
    ELSE IF cls = "ArrayField" THEN <<"ArrayField", "ValueField", "Field">>
    ELSE IF cls = "NodeField" THEN <<"NodeField", "RelatedField", "Field">>
    ELSE IF cls = "DatasetField" THEN <<"DatasetField", "RelatedField", "Field">>
    ELSE IF cls = "RelatedField" THEN <<"RelatedField", "Field">>
    ELSE <<cls>>

\* dict.update: the pairs of d, and those of merged whose name d does not bind
DictUpdate(merged, d) ==
    d \cup { p \in merged : \A q \in d : q[1] # p[1] }

\* RegisterLookupMixin.merge_dicts: for d in reversed(dicts): merged.update(d)
RECURSIVE merge_dicts(_)
merge_dicts(dicts) ==
    IF dicts = <<>> THEN {}
    ELSE DictUpdate(merge_dicts(Tail(dicts)), Head(dicts))

\* RegisterLookupMixin.get_lookups
get_lookups(cls) ==
    merge_dicts([i \in 1..Len(mro(cls)) |-> class_lookups(mro(cls)[i])])

\* RegisterLookupMixin._get_lookup / get_lookup: the class, or "None"
get_lookup(field, lookup_name) ==
    IF \E p \in get_lookups(field.cls) : p[1] = lookup_name
    THEN (CHOOSE p \in get_lookups(field.cls) : p[1] = lookup_name)[2]
    ELSE "None"

-----------------------------------------------------------------------------
(* The Path Resolver (Node.get_filters .. Node._parser_filters)             *)

\* getattr(field, "related_node", []): NodeField.related_node,
\* DatasetField.related_node
related_node(field) ==
    IF field.cls = "NodeField" THEN << get_value(field) >>
    ELSE IF field.cls = "DatasetField" THEN get_value(field).nodes
    ELSE <<>>

RECURSIVE get_filters(_)

\* Node.get_node_filters
get_node_filters(node, parent) ==
    { Join(parent, child_filter) : child_filter \in get_filters(node) }

\* Node.get_filters.  functools.lru_cache keeps the set per Node (by hash and
\* equality); the set is computed here from the node as it is.
get_filters(node) ==
    UNION { { get_name(node.fields[i]) } \cup
            UNION { get_node_filters(related_node(node.fields[i])[j],
                                     get_name(node.fields[i])) :
                    j \in 1..Len(related_node(node.fields[i])) } :
            i \in 1..Len(node.fields) }

\* The filters that get_match_filter keeps for param: rpartition finds the
\* filter (rpart[1] not empty) and nothing is before its last occurrence
\* (rpart[0] empty)
MatchingFilters(node, param) ==
    { f \in get_filters(node) :
        LET rpart == RPartition(param, f) IN
        /\ rpart[2] # <<>>
        /\ rpart[1] = <<>> }

\* len(rpart[1].split(LOOKUP_SEP))
Segments(f) == Len(Split(f, LOOKUP_SEP))

\* The filters max() may return: those with the most segments.  max returns the
\* first of them in the iteration order of the set get_filters() returned.
MaxFilters(node, param) ==
    LET longest(partition) ==
            { f \in partition : \A g \in partition : Segments(g) =< Segments(f) }
    IN longest(MatchingFilters(node, param))

\* The iteration order of a set of str is fixed by the process's string
\* hashing, not by the code: sd picks which of the tied filters comes first.
\* Tied filters all begin param, so their lengths differ.
FirstInSetOrder(S, sd) ==
    CHOOSE f \in S :
        Cardinality({ g \in S : Len(g) < Len(f) }) = sd % Cardinality(S)

\* Node.get_match_filter: [exc, obj]
get_match_filter(node, param, sd) ==
    LET first(tied) ==
            IF tied = {} THEN Raise("ValueError", <<>>)
            ELSE Ok(FirstInSetOrder(tied, sd))
    IN first(MaxFilters(node, param))

\* Node.get_lookup_name
get_lookup_name(param, filter) ==
    LET lookup_name == RPartition(param, filter)[3] IN
    IF lookup_name = <<>> THEN sExact ELSE Strip(lookup_name, LOOKUP_SEP)

\* dataclass Filter
Filter(value, field_name, lookup_name) ==
    [value |-> value, field_name |-> field_name, lookup_name |-> lookup_name]

\* Faulty variant of NextUpdate: every key opens a group of its own
NextUpdate_apart(next, parent, new_param, value) ==
    Append(next, [parent |-> parent, params |-> << <<new_param, value>> >>])

\* next_filters[parent_node].update({new_param: value}) on the defaultdict, kept
\* as a sequence of [parent, params] in the order the parents first appear
NextUpdate(next, parent, new_param, value) ==
    IF \E g \in 1..Len(next) : next[g].parent = parent
    THEN [g \in 1..Len(next) |->
            IF next[g].parent = parent
            THEN [next[g] EXCEPT !.params =
                    IF \E k \in 1..Len(@) : @[k][1] = new_param
                    THEN [k \in 1..Len(@) |->
                            IF @[k][1] = new_param THEN <<new_param, value>> ELSE @[k]]
                    ELSE Append(@, <<new_param, value>>)]
            ELSE next[g]]
    ELSE Append(next, [parent |-> parent, params |-> << <<new_param, value>> >>])

\* Node._parser_filters: [exc, current, next], kwargs the <<param, value>>
\* pairs in the order they were passed
RECURSIVE parser_filters_loop(_, _, _, _, _, _)
parser_filters_loop(node, kwargs, sd, i, current, next) ==
    IF i > Len(kwargs)
    THEN [exc |-> NoExc, current |-> current, next |-> next]
    ELSE LET param == kwargs[i][1]
             value == kwargs[i][2]
             splitted(filter, splitted_filter) ==
                 IF Len(splitted_filter) = 1
                 THEN parser_filters_loop(node, kwargs, sd, i + 1,
                         Append(current, Filter(value, splitted_filter[1],
                                                get_lookup_name(param, filter))),
                         next)
                 ELSE parser_filters_loop(node, kwargs, sd, i + 1, current,
                         NextUpdate(next, splitted_filter[1],
                                    RemoveFirst(param, splitted_filter[1] \o LOOKUP_SEP),
                                    value))
             matched(m) ==
                 IF m.exc # NoExc
                 THEN [exc |-> m.exc, current |-> current, next |-> next]
                 ELSE splitted(m.obj, Split(m.obj, LOOKUP_SEP))
         IN matched(get_match_filter(node, param, sd))

parser_filters(node, kwargs, sd) == parser_filters_loop(node, kwargs, sd, 1, <<>>, <<>>)

-----------------------------------------------------------------------------
(* Values at run time.  Field.get_value() gives the decoded scalar of a     *)
(* ValueField, a list of Field objects (ArrayField), a Node or a Dataset;   *)
(* all are carried as [t, n, items] like the decoded values.                *)

ObjList(xs) == [t |-> "list", n |-> 0, items |-> xs]
FieldObj(field) == [t |-> "Field", n |-> 0, items |-> << field >>]
NodeObj(node) == [t |-> "Node", n |-> 0, items |-> << node >>]
DatasetObj(dataset) == [t |-> "Dataset", n |-> 0, items |-> dataset.nodes]

\* field.get_value() as a run-time value
ValueOf(field) ==
    IF field.cls = "ValueField" THEN get_value(field)
    ELSE IF field.cls = "ArrayField"
    THEN ObjList([i \in 1..Len(get_value(field)) |-> FieldObj(get_value(field)[i])])
    ELSE IF field.cls = "NodeField" THEN NodeObj(get_value(field))
    ELSE DatasetObj(get_value(field))

IsNumber(v) == v.t \in {"int", "bool"}
IsSequence(v) == v.t \in {"list", "tuple"}

\* isinstance(v, collections.abc.Iterable): the class defines __iter__
IsIterable(v) == v.t \in {"list", "tuple", "str", "dict", "Dataset"}

\* The elements  for x in v  yields
IterItems(v) ==
    IF v.t = "str" THEN [i \in 1..Len(v.items) |-> PyStr(<< v.items[i] >>)]
    ELSE IF v.t = "Dataset" THEN [i \in 1..Len(v.items) |-> NodeObj(v.items[i])]
    ELSE IF v.t = "dict" THEN [i \in 1..Len(v.items) |-> PyStr(v.items[i][1])]
    ELSE v.items

\* x == y.  Field.__eq__, Node.__eq__ and Dataset.__eq__ answer False for an
\* object of another class; a list equals a list (a tuple a tuple) with equal
\* elements.
RECURSIVE PyEq(_, _)
PyEq(x, y) ==
    IF IsNumber(x) /\ IsNumber(y) THEN x.n = y.n
    ELSE IF x.t # y.t THEN FALSE
    ELSE IF x.t = "str" THEN x.items = y.items
    ELSE IF x.t = "NoneType" THEN TRUE
    ELSE IF IsSequence(x)
    THEN /\ Len(x.items) = Len(y.items)
         /\ \A i \in 1..Len(x.items) : PyEq(x.items[i], y.items[i])
    ELSE x = y

\* x in c: [exc, obj]
PyIn(x, c) ==
    IF IsSequence(c) \/ c.t = "Dataset"
    THEN Ok(\E i \in 1..Len(IterItems(c)) : PyEq(x, IterItems(c)[i]))
    ELSE IF c.t = "str"
    THEN IF x.t = "str" THEN Ok(Contains(c.items, x.items))
         ELSE Raise("TypeError", FALSE)
    ELSE IF c.t = "dict" THEN Raise("Unmodelled", FALSE)
    ELSE Raise("TypeError", FALSE)

-----------------------------------------------------------------------------
(* Hashing, as far as it can fail.  functools.lru_cache hashes the Node on  *)
(* every get_filters() call; Field.get_hash_list of a NodeField hashes      *)
(* str(node), and Node.__str__ reads the value of the node's first field.   *)

RECURSIVE Node_str_exc(_)
RECURSIVE Node_hash_exc(_)
RECURSIVE Field_hash_exc(_)

\* The first exception of a sequence of exception names
RECURSIVE FirstOf(_)
FirstOf(es) ==
    IF es = <<>> THEN NoExc
    ELSE IF Head(es) # NoExc THEN Head(es)
    ELSE FirstOf(Tail(es))

\* Node.__str__: list(self.fields.values())[0].get_value(), formatted with
\* str(): of a Node again Node.__str__, of a Dataset the repr of its nodes
Node_str_exc(node) ==
    IF node.fields = <<>> THEN "IndexError"
    ELSE LET first == node.fields[1] IN
         IF first.cls = "NodeField" THEN Node_str_exc(get_value(first))
         ELSE IF first.cls = "DatasetField"
         THEN FirstOf([i \in 1..Min2(Len(get_value(first).nodes), REPR_OUTPUT_SIZE) |->
                          Node_str_exc(get_value(first).nodes[i])])
         ELSE NoExc

\* Dataset.__repr__: the repr of the first REPR_OUTPUT_SIZE nodes (a text takes
\* the place of the next one)
Dataset_repr_exc(nodes) ==
    FirstOf([i \in 1..Min2(Len(nodes), REPR_OUTPUT_SIZE) |-> Node_str_exc(nodes[i])])

\* What str(v) raises for a run-time value v
Str_exc(v) ==
    IF v.t = "Node" THEN Node_str_exc(v.items[1])
    ELSE IF v.t = "Dataset" THEN Dataset_repr_exc(v.items)
    ELSE NoExc

\* Field.__hash__ with Field.get_hash_list, ArrayField.get_hash_list and
\* DatasetField.get_hash_list
Field_hash_exc(field) ==
    IF field.cls = "NodeField" THEN Node_str_exc(get_value(field))
    ELSE IF field.cls = "ArrayField"
    THEN FirstOf([i \in 1..Len(get_value(field)) |-> Field_hash_exc(get_value(field)[i])])
    ELSE IF field.cls = "DatasetField"
    THEN FirstOf([i \in 1..Len(get_value(field).nodes) |->
                     Node_hash_exc(get_value(field).nodes[i])])
    ELSE NoExc

\* Node.__hash__
Node_hash_exc(node) ==
    FirstOf([i \in 1..Len(node.fields) |-> Field_hash_exc(node.fields[i])])

\* What self.get_filters() raises: the hash of self for the cache, then the
\* get_filters() of every related node
RECURSIVE get_filters_exc(_)
get_filters_exc(node) ==
    LET raised == Node_hash_exc(node) IN
    IF raised # NoExc THEN raised
    ELSE FirstOf([i \in 1..Len(node.fields) |->
            FirstOf([j \in 1..Len(related_node(node.fields[i])) |->
                        get_filters_exc(related_node(node.fields[i])[j])])])

-----------------------------------------------------------------------------
(* The predicates (lookup.py)                                               *)

\* The classes that inherit CaseInsensitive's prepare_*, and the class each
\* inherits is_matching from
CaseInsensitiveLookups == { "IExact", "IRegex", "IContains", "IStartsWith", "IEndsWith" }

MatchingClass(cls) ==
    IF cls = "IExact" THEN "Exact"
    ELSE IF cls = "IRegex" THEN "Regex"
    ELSE IF cls = "IContains" THEN "Contains"
    ELSE IF cls = "IStartsWith" THEN "StartsWith"
    ELSE IF cls = "IEndsWith" THEN "EndsWith"
    ELSE cls

\* str.lower on the letters
UpperCase == << "A", "B", "C", "D", "E", "F", "G", "H", "I", "J", "K", "L", "M",
               "N", "O", "P", "Q", "R", "S", "T", "U", "V", "W", "X", "Y", "Z" >>
LowerCase == << "a", "b", "c", "d", "e", "f", "g", "h", "i", "j", "k", "l", "m",
               "n", "o", "p", "q", "r", "s", "t", "u", "v", "w", "x", "y", "z" >>
Lower(s) ==
    [i \in 1..Len(s) |->
        IF \E k \in 1..Len(UpperCase) : UpperCase[k] = s[i]
        THEN LowerCase[CHOOSE k \in 1..Len(UpperCase) : UpperCase[k] = s[i]]
        ELSE s[i]]

\* What Lookup.__init__ raises: CaseInsensitive.prepare_filter_value (IRegex
\* overrides it with the identity) and then CaseInsensitive.prepare_field_value
\* call .lower() on the value
prepare_exc(cls, field_value, filter_value) ==
    IF cls \in CaseInsensitiveLookups \ { "IRegex" } /\ filter_value.t # "str"
    THEN "AttributeError"
    ELSE IF cls \in CaseInsensitiveLookups /\ field_value.t # "str"
    THEN "AttributeError"
    ELSE NoExc

\* The classes that inherit ArrayLookup's prepare_* (RelatedLookup restores
\* the identity)
ArrayLookups ==
    { "ArrayContains", "ArrayContainedBy", "ArrayOverlap", "ArrayLength",
      "ArrayInLookup" }

\* Lookup.prepare_filter_value / ArrayLookup.prepare_filter_value
prepare_filter_value(cls, filter_value) ==
    IF cls \in ArrayLookups /\ filter_value.t = "str"
    THEN PyList(<< filter_value >>)
    ELSE IF cls \in CaseInsensitiveLookups \ { "IRegex" } /\ filter_value.t = "str"
    THEN PyStr(Lower(filter_value.items))
    ELSE filter_value

\* Lookup.prepare_field_value / ArrayLookup.prepare_field_value:
\* [field.get_value() for field in field_value]
prepare_field_value(cls, field_value) ==
    IF cls \in ArrayLookups
    THEN ObjList([i \in 1..Len(field_value.items) |->
                    ValueOf(field_value.items[i].items[1])])
    ELSE IF cls \in CaseInsensitiveLookups /\ field_value.t = "str"
    THEN PyStr(Lower(field_value.items))
    ELSE field_value

\* Lookup.check_filter_value_type with the class's filter_types
filter_types_ok(cls, filter_value) ==
    IF cls \in {"In", "ArrayInLookup"} THEN IsIterable(filter_value)
    ELSE IF cls \in {"Regex", "IRegex"} THEN filter_value.t = "str"
    ELSE IF cls = "IsNull" THEN filter_value.t = "bool"
    ELSE IF cls = "ArrayLength" THEN IsNumber(filter_value)
    ELSE IF cls = "DatasetInLookup"
    THEN IsSequence(filter_value) \/ filter_value.t = "Dataset"
    ELSE TRUE

\* The TypeError's message formats self.field_value, which can itself raise
check_filter_value_type(cls, field_value, filter_value) ==
    IF filter_types_ok(cls, filter_value) THEN NoExc
    ELSE IF Str_exc(field_value) # NoExc THEN Str_exc(field_value)
    ELSE "TypeError"

\* a > b, a >= b, a < b, a <= b on numbers
Compare(cls, a, b) ==
    IF cls = "GreaterThan" THEN a > b
    ELSE IF cls = "GreaterThanOrEqual" THEN a >= b
    ELSE IF cls = "LessThan" THEN a < b
    ELSE a =< b

\* GreaterThan .. LessThanOrEqual.is_matching.  Two lists compare by their
\* first unequal elements, and by their lengths when one begins the other; a
\* Field object never equals a decoded value and has no ordering.
Comparison_is_matching(cls, field_value, filter_value) ==
    IF IsNumber(field_value) /\ IsNumber(filter_value)
    THEN Ok(Compare(cls, field_value.n, filter_value.n))
    ELSE IF field_value.t = "str" /\ filter_value.t = "str"
    THEN Raise("Unmodelled", FALSE)
    ELSE IF field_value.t = "list" /\ filter_value.t = "list"
    THEN IF field_value.items = <<>> \/ filter_value.items = <<>>
         THEN Ok(Compare(cls, Len(field_value.items), Len(filter_value.items)))
         ELSE IF field_value.items[1].t = "Field"
         THEN Raise("TypeError", FALSE)
         ELSE Raise("Unmodelled", FALSE)
    ELSE Raise("TypeError", FALSE)

\* Range.is_matching: field_value in range(filter_value[0], filter_value[1])
Range_is_matching(field_value, filter_value) ==
    IF filter_value.t \in {"Dataset", "str"}
    THEN IF Len(filter_value.items) < 2 THEN Raise("IndexError", FALSE)
         ELSE Raise("TypeError", FALSE)
    ELSE IF ~IsSequence(filter_value) THEN Raise("TypeError", FALSE)
    ELSE IF Len(filter_value.items) < 2 THEN Raise("IndexError", FALSE)
    ELSE IF ~IsNumber(filter_value.items[1]) \/ ~IsNumber(filter_value.items[2])
    THEN Raise("TypeError", FALSE)
    ELSE Ok(/\ IsNumber(field_value)
            /\ filter_value.items[1].n =< field_value.n
            /\ field_value.n < filter_value.items[2].n)

\* Contains / StartsWith / EndsWith.is_matching: field_value.find(filter_value),
\* field_value.startswith(filter_value), field_value.endswith(filter_value)
StrMethod_is_matching(cls, field_value, filter_value) ==
    IF field_value.t # "str" THEN Raise("AttributeError", FALSE)
    ELSE IF filter_value.t = "str"
    THEN Ok(IF cls = "Contains" THEN Contains(field_value.items, filter_value.items)
            ELSE IF cls = "StartsWith"
            THEN StartsWith(field_value.items, filter_value.items)
            ELSE EndsWith(field_value.items, filter_value.items))
    ELSE IF filter_value.t = "tuple" /\ cls # "Contains"
    THEN Raise("Unmodelled", FALSE)
    ELSE Raise("TypeError", FALSE)

\* all([a[i] in c for i]) / any: the first exception, else the truth value
AllIn(xs, c) ==
    LET all(rs) ==
            IF FirstExc(rs) # NoExc THEN Raise(FirstExc(rs), FALSE)
            ELSE Ok(\A i \in 1..Len(xs) : rs[i].obj)
    IN all([i \in 1..Len(xs) |-> PyIn(xs[i], c)])

\* for x in xs: if x in c: return True  -- stops at the first that is in c
RECURSIVE AnyIn(_, _)
AnyIn(xs, c) ==
    IF xs = <<>> THEN Ok(FALSE)
    ELSE LET found(r) ==
                 IF r.exc # NoExc THEN r
                 ELSE IF r.obj THEN Ok(TRUE)
                 ELSE AnyIn(Tail(xs), c)
         IN found(PyIn(Head(xs), c))

\* X.is_matching(field_value, filter_value): [exc, obj]
is_matching(cls, field_value, filter_value) ==
    IF cls = "Exact" THEN Ok(PyEq(field_value, filter_value))
    ELSE IF cls = "In" THEN PyIn(field_value, filter_value)
    ELSE IF cls = "Range" THEN Range_is_matching(field_value, filter_value)
    ELSE IF cls = "IsNull"
    THEN Ok(IF filter_value.n = 1 THEN field_value.t = "NoneType"
            ELSE field_value.t # "NoneType")
    ELSE IF cls \in {"GreaterThan", "GreaterThanOrEqual", "LessThan", "LessThanOrEqual"}
    THEN Comparison_is_matching(cls, field_value, filter_value)
    ELSE IF cls \in {"Contains", "StartsWith", "EndsWith"}
    THEN StrMethod_is_matching(cls, field_value, filter_value)
    ELSE IF cls = "ArrayContains"
    THEN IF ~IsIterable(filter_value) THEN Raise("TypeError", FALSE)
         ELSE AllIn(IterItems(filter_value), field_value)
    ELSE IF cls = "ArrayContainedBy"
    THEN AllIn(field_value.items, filter_value)
    ELSE IF cls = "ArrayOverlap"
    THEN IF ~IsIterable(filter_value) THEN Raise("TypeError", FALSE)
         ELSE AnyIn(IterItems(filter_value), field_value)
    ELSE IF cls = "ArrayLength"
    THEN Ok(Len(field_value.items) = filter_value.n)
    ELSE IF cls \in {"ArrayInLookup", "DatasetInLookup"}
    THEN AnyIn(IterItems(field_value), filter_value)
    ELSE Raise("Unmodelled", FALSE)   \* Regex.is_matching: re.match is not computed

\* lookup_class(field_value, filter_value).resolve(): [exc, obj]
Lookup_resolve(cls, field_value, filter_value) ==
    LET checked(raised, dv, fv) ==
            IF raised # NoExc THEN Raise(raised, FALSE)
            ELSE is_matching(MatchingClass(cls), dv, fv)
        prepared(dv, fv) == checked(check_filter_value_type(cls, dv, fv), dv, fv)
        initialised(raised) ==
            IF raised # NoExc THEN Raise(raised, FALSE)
            ELSE prepared(prepare_field_value(cls, field_value),
                          prepare_filter_value(cls, filter_value))
    IN initialised(prepare_exc(cls, field_value, filter_value))

-----------------------------------------------------------------------------
(* Node.filter and the Record-Set operations                                *)

\* Node.filter, lines 411-414: the key no filter of the node begins
FilterExists(filters, key) == \E f \in filters : StartsWith(key, f)

\* Node.filter, lines 420-425: the current filters one after the other, until
\* one raises or does not match.  [exc, evals]: evals counts the resolve() calls.
RECURSIVE current_filters_loop(_, _, _, _)
current_filters_loop(node, current, i, evals) ==
    IF i > Len(current) THEN [exc |-> NoExc, evals |-> evals]
    ELSE LET resolved(r) ==
                 IF r.exc # NoExc THEN [exc |-> r.exc, evals |-> evals + 1]
                 ELSE IF ~r.obj THEN [exc |-> "ObjectNotFound", evals |-> evals + 1]
                 ELSE current_filters_loop(node, current, i + 1, evals + 1)
             looked_up(field, lookup_class) ==
                 IF lookup_class = "None" THEN [exc |-> "LookupError", evals |-> evals]
                 ELSE resolved(Lookup_resolve(lookup_class, ValueOf(field),
                                              current[i].value))
             got(field) == looked_up(field, get_lookup(field, current[i].lookup_name))
         IN got(node.fields[FieldIndex(node, current[i].field_name)])

\* Faulty variant of SetFieldValue: the assignment resets the cascade flag
SetFieldValue_clearing(node, i, value) ==
    [node EXCEPT !.fields[i].value = value, !.on_cascade = FALSE]

SetFieldValue(node, i, value) == [node EXCEPT !.fields[i].value = value]

\* Faulty variant of cascade_replaces: the flag is not read
cascade_replaces_always(node) == TRUE

\* Node.filter, line 434: if self.on_cascade is True
cascade_replaces(node) == node.on_cascade = TRUE

\* Faulty variant of is_no_match: ObjectNotFound is not caught
is_no_match_never(exc) == FALSE

\* Dataset._filter, line 144, and Dataset.exclude, line 231: except ObjectNotFound
is_no_match(exc) == exc = "ObjectNotFound"

\* Faulty variant of is_empty_result: an empty result passes
is_empty_result_never(data) == FALSE

\* Node.filter, line 432: if len(data) == 0
is_empty_result(data) == Len(data.nodes) = 0

\* Faulty variant of Pick: every node, kept or not
Pick_all(nodes, kept) == nodes

\* [nodes[k] : k in kept]
Pick(nodes, kept) == [k \in 1..Len(kept) |-> nodes[kept[k]]]

RECURSIVE Node_filter(_, _, _)
RECURSIVE nodes_filter_loop(_, _, _, _, _, _, _)
RECURSIVE next_filters_loop(_, _, _, _, _)

\* The loop of Dataset._filter (keep = "match": the node is kept when
\* node.filter returns) and of Dataset.exclude (keep = "nomatch": kept when it
\* raises ObjectNotFound).  Any other exception ends the loop.
\* [exc, nodes, kept, evals]: nodes as the calls left them, kept the positions
\* of the nodes of the result.
nodes_filter_loop(nodes, kwargs, sd, keep, i, kept, evals) ==
    IF i > Len(nodes)
    THEN [exc |-> NoExc, nodes |-> nodes, kept |-> kept, evals |-> evals]
    ELSE LET filtered(r, after) ==
                 IF r.exc = NoExc
                 THEN nodes_filter_loop(after, kwargs, sd, keep, i + 1,
                         IF keep = "match" THEN Append(kept, i) ELSE kept,
                         evals + r.evals)
                 ELSE IF is_no_match(r.exc)
                 THEN nodes_filter_loop(after, kwargs, sd, keep, i + 1,
                         IF keep = "nomatch" THEN Append(kept, i) ELSE kept,
                         evals + r.evals)
                 ELSE [exc |-> r.exc, nodes |-> after, kept |-> kept,
                       evals |-> evals + r.evals]
             called(r) == filtered(r, [nodes EXCEPT ![i] = r.obj])
         IN called(Node_filter(nodes[i], kwargs, sd))

\* Node.filter, lines 427-435: the forwarded groups one after the other
next_filters_loop(node, next, sd, g, evals) ==
    IF g > Len(next) THEN [exc |-> NoExc, obj |-> node, evals |-> evals]
    ELSE LET node_filtered(i, r, after) ==
                 IF r.exc # NoExc
                 THEN [exc |-> r.exc, obj |-> after, evals |-> evals + r.evals]
                 ELSE next_filters_loop(after, next, sd, g + 1, evals + r.evals)
             nodes_filtered(i, r, after, data) ==
                 IF r.exc # NoExc
                 THEN [exc |-> r.exc, obj |-> after, evals |-> evals + r.evals]
                 ELSE IF is_empty_result(data)
                 THEN [exc |-> "ObjectNotFound", obj |-> after,
                       evals |-> evals + r.evals]
                 ELSE IF cascade_replaces(node)
                 THEN next_filters_loop(SetFieldValue(node, i, data), next, sd,
                                        g + 1, evals + r.evals)
                 ELSE next_filters_loop(after, next, sd, g + 1, evals + r.evals)
             node_called(i, r) == node_filtered(i, r, SetFieldValue(node, i, r.obj))
             nodes_called(i, r) ==
                 nodes_filtered(i, r, SetFieldValue(node, i, MkDataset(r.nodes)),
                                MkDataset(Pick(r.nodes, r.kept)))
             forwarded(i, field) ==
                 IF field.cls = "NodeField"
                 THEN node_called(i, Node_filter(get_value(field), next[g].params, sd))
                 ELSE IF field.cls = "DatasetField"
                 THEN nodes_called(i, nodes_filter_loop(get_value(field).nodes,
                                        next[g].params, sd, "match", 1, <<>>, 0))
                 ELSE [exc |-> "AttributeError", obj |-> node, evals |-> evals]
             found(i) ==
                 IF i = 0
                 THEN [exc |-> get_field_exc(node), obj |-> node, evals |-> evals]
                 ELSE forwarded(i, node.fields[i])
         IN found(FieldIndex(node, next[g].parent))

\* Node.filter: [exc, obj, evals], obj the node as the call left it
Node_filter(node, kwargs, sd) ==
    IF kwargs = <<>> THEN [exc |-> NoExc, obj |-> node, evals |-> 0]
    ELSE LET current_done(c, next) ==
                 IF c.exc # NoExc
                 THEN [exc |-> c.exc, obj |-> node, evals |-> c.evals]
                 ELSE next_filters_loop(node, next, sd, 1, c.evals)
             parser_done(p) ==
                 IF p.exc # NoExc THEN [exc |-> p.exc, obj |-> node, evals |-> 0]
                 ELSE current_done(current_filters_loop(node, p.current, 1, 0), p.next)
             validated(raised, filters) ==
                 IF raised # NoExc THEN [exc |-> raised, obj |-> node, evals |-> 0]
                 ELSE IF \E k \in 1..Len(kwargs) : ~FilterExists(filters, kwargs[k][1])
                 THEN [exc |-> "FilterDoesNotExist", obj |-> node, evals |-> 0]
                 ELSE parser_done(parser_filters(node, kwargs, sd))
         IN validated(get_filters_exc(node), get_filters(node))

\* Dataset.filter / Dataset._filter: [exc, nodes, kept, evals]
Dataset_filter(dataset, kwargs, sd) ==
    nodes_filter_loop(dataset.nodes, kwargs, sd, "match", 1, <<>>, 0)

\* Faulty variant of Dataset.exclude: the nodes that match are kept
Dataset_exclude_keeping_matches(dataset, kwargs, sd) ==
    nodes_filter_loop(dataset.nodes, kwargs, sd, "match", 1, <<>>, 0)

\* Dataset.exclude: without kwargs the receiver itself
Dataset_exclude(dataset, kwargs, sd) ==
    IF kwargs = <<>>
    THEN [exc |-> NoExc, nodes |-> dataset.nodes,
          kept |-> [i \in 1..Len(dataset.nodes) |-> i], evals |-> 0]
    ELSE nodes_filter_loop(dataset.nodes, kwargs, sd, "nomatch", 1, <<>>, 0)

\* Node.activate_on_cascade
RECURSIVE activate_on_cascade(_)
activate_on_cascade(node) ==
    [on_cascade |-> TRUE,
     fields |-> [i \in 1..Len(node.fields) |->
        IF node.fields[i].cls = "NodeField"
        THEN [node.fields[i] EXCEPT !.value = activate_on_cascade(@)]
        ELSE IF node.fields[i].cls = "DatasetField"
        THEN [node.fields[i] EXCEPT !.value =
                MkDataset([j \in 1..Len(@.nodes) |-> activate_on_cascade(@.nodes[j])])]
        ELSE node.fields[i]]]

\* Dataset.on_cascade
Dataset_on_cascade(dataset) ==
    MkDataset([i \in 1..Len(dataset.nodes) |-> activate_on_cascade(dataset.nodes[i])])

-----------------------------------------------------------------------------
(* Dataset.filter_related.  A related node is named by its path in the      *)
(* store: node position, field position, node position, ...                 *)

RECURSIVE NodeAt(_, _)
NodeAt(nodes, path) ==
    IF Len(path) = 1 THEN nodes[path[1]]
    ELSE NodeAt(related_node(nodes[path[1]].fields[path[2]]), SubSeq(path, 3, Len(path)))

\* The nodes with the node at the path replaced
RECURSIVE SetNodeAt(_, _, _)
SetNodeAt(nodes, path, new) ==
    IF Len(path) = 1 THEN [nodes EXCEPT ![path[1]] = new]
    ELSE LET field == nodes[path[1]].fields[path[2]]
             rest == SubSeq(path, 3, Len(path))
         IN IF field.cls = "NodeField"
            THEN [nodes EXCEPT ![path[1]].fields[path[2]].value =
                        SetNodeAt(<< @ >>, rest, new)[1]]
            ELSE [nodes EXCEPT ![path[1]].fields[path[2]].value.nodes =
                        SetNodeAt(@, rest, new)]

\* Dataset._search_related_node: [exc, obj], obj the paths of the related
\* nodes in the order the code collects them.  fields_name is name.split("."),
\* and the recursive call splits ".".join(fields_name[1:]) again.
RECURSIVE search_related_node(_, _, _, _, _)
search_related_node(fields_name, nodes, prefix, i, found) ==
    IF i > Len(nodes) THEN Ok(found)
    ELSE LET descended(deeper) ==
                 IF deeper.exc # NoExc THEN deeper
                 ELSE search_related_node(fields_name, nodes, prefix, i + 1,
                                          found \o deeper.obj)
             related(f, field_nodes) ==
                 IF Len(fields_name) = 1
                 THEN search_related_node(fields_name, nodes, prefix, i + 1,
                         found \o [j \in 1..Len(field_nodes) |-> prefix \o << i, f, j >>])
                 ELSE descended(search_related_node(Tail(fields_name), field_nodes,
                                                    prefix \o << i, f >>, 1, <<>>))
             got(f) ==
                 IF f = 0 THEN Raise("FieldNotFound", found)
                 ELSE related(f, related_node(nodes[i].fields[f]))
         IN got(FieldIndex(nodes[i], fields_name[1]))

\* Dataset._filter over the related nodes: [exc, nodes, kept, evals], nodes
\* the nodes of the receiver as the calls left them, kept the paths of the
\* nodes of the result
RECURSIVE related_filter_loop(_, _, _, _, _, _, _)
related_filter_loop(nodes, paths, kwargs, sd, k, kept, evals) ==
    IF k > Len(paths)
    THEN [exc |-> NoExc, nodes |-> nodes, kept |-> kept, evals |-> evals]
    ELSE LET filtered(r, after) ==
                 IF r.exc = NoExc
                 THEN related_filter_loop(after, paths, kwargs, sd, k + 1,
                                          Append(kept, paths[k]), evals + r.evals)
                 ELSE IF is_no_match(r.exc)
                 THEN related_filter_loop(after, paths, kwargs, sd, k + 1, kept,
                                          evals + r.evals)
                 ELSE [exc |-> r.exc, nodes |-> after, kept |-> kept,
                       evals |-> evals + r.evals]
             called(r) == filtered(r, SetNodeAt(nodes, paths[k], r.obj))
         IN called(Node_filter(NodeAt(nodes, paths[k]), kwargs, sd))

\* Dataset.filter_related
Dataset_filter_related(dataset, name, kwargs, sd) ==
    LET searched(s) ==
            IF s.exc # NoExc
            THEN [exc |-> s.exc, nodes |-> dataset.nodes, kept |-> <<>>, evals |-> 0]
            ELSE related_filter_loop(dataset.nodes, s.obj, kwargs, sd, 1, <<>>, 0)
    IN searched(search_related_node(Split(name, << "." >>), dataset.nodes, <<>>, 1, <<>>))

-----------------------------------------------------------------------------
(* The inputs of the Record-Set operations.  A record has an optional       *)
(* scalar field id, an optional Record-Collection c of records {b: i} and   *)
(* an optional Nested-Record n = {c: [{b: 1}, ..]}.                          *)

sId == <<"i", "d">>
sB == <<"b">>
sC == <<"c">>
sN == <<"n">>
sXxx == <<"x", "x", "x">>

Leaf(i) == PyDict(<< << sB, PyInt(i) >> >>)

\* The lists of 1..MaxColl leaf records
Colls ==
    { PyList([k \in 1..Len(s) |-> Leaf(s[k])]) :
        s \in UNION { [1..k -> 1..MaxInt] : k \in 1..MaxColl } }

\* The key-value pairs of the mapping with the absent ones left out
Absent == [t |-> "absent", n |-> 0, items |-> <<>>]
RECURSIVE Present(_)
Present(kvs) ==
    IF kvs = <<>> THEN <<>>
    ELSE IF Head(kvs)[2] = Absent THEN Present(Tail(kvs))
    ELSE << Head(kvs) >> \o Present(Tail(kvs))

\* The nested record: its collection holds one leaf record of every b
NestedRecords == { PyDict(<< << sC, PyList([i \in 1..MaxInt |-> Leaf(i)]) >> >>) }

RichRecords ==
    { PyDict(Present(<< << sId, id >>, << sC, c >>, << sN, n >> >>)) :
        id \in {Absent} \cup { PyInt(i) : i \in 1..MaxInt },
        c \in {Absent} \cup Colls,
        n \in {Absent} \cup NestedRecords } \ { PyDict(<<>>) }

PlainRecords == { PyDict(<< << sId, PyInt(i) >> >>) : i \in 1..MaxInt }

\* The input trees: no record, or a record followed by plain records
Stores ==
    { PyList(<<>>) } \cup
    { PyList(<< r >> \o rest) :
        r \in RichRecords,
        rest \in UNION { [1..k -> PlainRecords] : k \in 0..(MaxNodes - 1) } }

\* One keyword argument: a raw key and its value
KwItems ==
    { << f, PyInt(i) >> : f \in { sId, Join(sC, sB), Join(sN, Join(sC, sB)) },
                          i \in 1..MaxInt }
    \cup { << Join(sId, sXxx), PyInt(1) >>,
           << Join(sN, Join(sC, Join(sB, sIsnull))), PyInt(1) >> }

\* The keyword sets of a call, in the order they were written
Kwargs ==
    { <<>> } \cup { << a >> : a \in KwItems }
    \cup { << p[1], p[2] >> : p \in { q \in KwItems \X KwItems : q[1][1] # q[2][1] } }

\* The arguments of filter_related: the name of the related field and the
\* keywords for its records
RelatedNames == { sC, sN, sN \o << "." >> \o sC, sId, sB }
RelatedKwargs ==
    { <<>> } \cup { << << sB, PyInt(i) >> >> : i \in 1..MaxInt }
    \cup { << << Join(sC, sB), PyInt(1) >> >>, << << Join(sB, sIsnull), PyInt(1) >> >> }

-----------------------------------------------------------------------------
(* The Record-Set under calls.  A call is made on the Record-Set at rest;   *)
(* what it returned or raised stays in `call` until the caller drops it.    *)

Idle ==
    [op |-> "idle", name |-> <<>>, kwargs |-> <<>>, exc |-> NoExc, kept |-> <<>>,
     evals |-> 0, pre |-> MkDataset(<<>>)]

\* The record of a call that ended as r = [exc, nodes, kept, evals]
Ended(op, name, kwargs, r, kept) ==
    [op |-> op, name |-> name, kwargs |-> kwargs, exc |-> r.exc,
     kept |-> IF r.exc = NoExc THEN kept ELSE <<>>,
     evals |-> r.evals, pre |-> store]

\* Positions as paths
AsPaths(positions) == [k \in 1..Len(positions) |-> << positions[k] >>]

\* Nothing read or parsed yet
Unread == [op |-> "none"]

Init ==
    /\ seed \in 0..MaxSeed
    /\ raw \in Stores
    /\ store = Dataset_new(raw).obj
    /\ loaded = store
    /\ call = Idle
    /\ prev = Idle
    /\ parsed = Unread

\* dataset.on_cascade()
OnCascade ==
    /\ call.op = "idle"
    /\ store' = Dataset_on_cascade(store)
    /\ UNCHANGED <<seed, loaded, call, prev, raw, parsed>>

\* dataset.filter(**kwargs)
DoFilter(kwargs) ==
    /\ call.op = "idle"
    /\ LET returned(r) ==
            /\ store' = MkDataset(r.nodes)
            /\ call' = Ended("filter", <<>>, kwargs, r, AsPaths(r.kept))
       IN returned(Dataset_filter(store, kwargs, seed))
    /\ UNCHANGED <<seed, loaded, prev, raw, parsed>>

\* dataset.exclude(**kwargs)
DoExclude(kwargs) ==
    /\ call.op = "idle"
    /\ LET returned(r) ==
            /\ store' = MkDataset(r.nodes)
            /\ call' = Ended("exclude", <<>>, kwargs, r, AsPaths(r.kept))
       IN returned(Dataset_exclude(store, kwargs, seed))
    /\ UNCHANGED <<seed, loaded, prev, raw, parsed>>

\* dataset.exclude(**kwargs) right after dataset.filter(**kwargs) returned,
\* with the same kwargs
ExcludeAfterFilter ==
    /\ call.op = "filter"
    /\ call.exc = NoExc
    /\ prev.op = "idle"
    /\ LET returned(r) ==
            /\ store' = MkDataset(r.nodes)
            /\ call' = Ended("exclude", <<>>, call.kwargs, r, AsPaths(r.kept))
       IN returned(Dataset_exclude(store, call.kwargs, seed))
    /\ prev' = call
    /\ UNCHANGED <<seed, loaded, raw, parsed>>

\* dataset.filter_related(name, **kwargs)
DoFilterRelated(name, kwargs) ==
    /\ call.op = "idle"
    /\ LET returned(r) ==
            /\ store' = MkDataset(r.nodes)
            /\ call' = Ended("filter_related", name, kwargs, r, r.kept)
       IN returned(Dataset_filter_related(store, name, kwargs, seed))
    /\ UNCHANGED <<seed, loaded, prev, raw, parsed>>

\* The caller is done with the result or the exception
Return ==
    /\ call.op # "idle"
    /\ call' = Idle
    /\ prev' = Idle
    /\ UNCHANGED <<seed, store, loaded, raw, parsed>>

Next ==
    \/ OnCascade
    \/ \E kwargs \in Kwargs : DoFilter(kwargs)
    \/ \E kwargs \in Kwargs : DoExclude(kwargs)
    \/ ExcludeAfterFilter
    \/ \E name \in RelatedNames, kwargs \in RelatedKwargs : DoFilterRelated(name, kwargs)
    \/ Return

Spec == Init /\ [][Next]_vars

\* Every lookup and comparison a call of Spec reaches is one the model defines
AllModelled == call.exc # "Unmodelled"

-----------------------------------------------------------------------------
(* Properties of the Record-Set operations (specification Spec)             *)

\* Some node reachable from the nodes has its cascade flag set
RECURSIVE AnyCascade(_)
AnyCascade(nodes) ==
    \E i \in 1..Len(nodes) :
        \/ nodes[i].on_cascade = TRUE
        \/ \E f \in 1..Len(nodes[i].fields) : AnyCascade(related_node(nodes[i].fields[f]))

\* Every node reachable from the nodes has its cascade flag set
RECURSIVE AllCascade(_)
AllCascade(nodes) ==
    \A i \in 1..Len(nodes) :
        /\ nodes[i].on_cascade = TRUE
        /\ \A f \in 1..Len(nodes[i].fields) : AllCascade(related_node(nodes[i].fields[f]))

\* dataset.values()
Values(dataset) == Dataset_values(dataset).obj

Elems(s) == { s[k] : k \in 1..Len(s) }

\* Every position 1..n is in exactly one of the two results, once
IsPartition(a, b, n) ==
    /\ \A i \in 1..n : (<< i >> \in Elems(a)) # (<< i >> \in Elems(b))
    /\ Len(a) + Len(b) = n

\* exclude(P) was called right after filter(P) returned, and returned
FilterThenExclude ==
    /\ call.op = "exclude"
    /\ prev.op = "filter"
    /\ call.exc = NoExc

Satisfying(nodes, params) ==
    LET sat(n) == Node_filter(n, params, seed).exc = NoExc IN SelectSeq(nodes, sat)

\* Along the forwarded groups of kwargs, every Record-Collection field of the
\* node `after` holds the nested nodes of `before` that satisfy the residual
\* keywords, in their order
RECURSIVE CascadeKept(_, _, _)
CascadeKept(before, after, kwargs) ==
    LET p == parser_filters(before, kwargs, seed) IN
    \A g \in 1..Len(p.next) :
        LET f == FieldIndex(before, p.next[g].parent) IN
        IF before.fields[f].cls = "DatasetField"
        THEN get_value(after.fields[f]).nodes =
                Satisfying(get_value(before.fields[f]).nodes, p.next[g].params)
        ELSE CascadeKept(get_value(before.fields[f]), get_value(after.fields[f]),
                         p.next[g].params)

\* filter(P) returned on a Record-Set on which on_cascade() had been called
CascadedFilterReturned ==
    /\ call.op = "filter"
    /\ call.exc = NoExc
    /\ call.kwargs # <<>>
    /\ AllCascade(call.pre.nodes)

\* C3: after on_cascade(), when filter(P) returns, every returned Record holds,
\* in each Record-Collection field on a forwarded path of P, exactly the nested
\* Records that satisfied the residual filter, in their original order.
C3_CascadeKeepsSatisfying ==
    CascadedFilterReturned =>
        \A k \in 1..Len(call.kept) :
            CascadeKept(call.pre.nodes[call.kept[k][1]], store.nodes[call.kept[k][1]],
                        call.kwargs)

\* A cascaded filter returned a Record whose collection c lost a nested Record
\* and whose collection n.c lost one too
C3_Witness ==
    /\ CascadedFilterReturned
    /\ \E k \in 1..Len(call.kept) :
        LET before == call.pre.nodes[call.kept[k][1]]
            after == store.nodes[call.kept[k][1]]
        IN /\ FieldIndex(before, sC) # 0
           /\ FieldIndex(before, sN) # 0
           /\ Len(get_value(after.fields[FieldIndex(after, sC)]).nodes)
                < Len(get_value(before.fields[FieldIndex(before, sC)]).nodes)
           /\ get_value(after.fields[FieldIndex(after, sN)]) #
                get_value(before.fields[FieldIndex(before, sN)])

\* C4: as long as no Record reachable from the Record-Set has its cascade flag
\* set, values() of the Record-Set, nested Records and Record-Collections
\* included, is what it was at construction, whatever filter, exclude and
\* filter_related calls were made.
C4_ReadOnlyWithoutCascade ==
    ~AnyCascade(store.nodes) => Values(store) = Values(loaded)

\* A filter on a nested key returned a Record, without cascade, where the same
\* call after on_cascade() would have replaced a nested collection
C4_Witness ==
    /\ call.op = "filter"
    /\ call.exc = NoExc
    /\ call.kept # <<>>
    /\ ~AnyCascade(store.nodes)
    /\ \E k \in 1..Len(call.kwargs) : StartsWith(call.kwargs[k][1], Join(sC, sB))
    /\ Values(MkDataset(Dataset_filter(Dataset_on_cascade(call.pre), call.kwargs, seed).nodes))
            # Values(call.pre)

\* C5 as stated: a call that raises FilterDoesNotExist has evaluated no
\* predicate and has replaced no nested field.
C5_NothingBeforeFilterDoesNotExist ==
    call.exc = "FilterDoesNotExist" => (call.evals = 0 /\ store = call.pre)

\* The key names the field of every Record of the Record-Set with a predicate
\* name that is not registered
UnregisteredKey(key, dataset) ==
    /\ key = Join(sId, sXxx)
    /\ dataset.nodes # <<>>
    /\ \A i \in 1..Len(dataset.nodes) :
        /\ FieldIndex(dataset.nodes[i], sId) # 0
        /\ get_lookup(dataset.nodes[i].fields[FieldIndex(dataset.nodes[i], sId)], sXxx)
                = "None"

\* C6 as stated: a filter call one of whose keys names an existing field with
\* an unregistered predicate name never returns a result, it raises LookupError,
\* whatever the other keys and the Records are.
C6_FaultyKeyAlwaysRaises ==
    (call.op = "filter"
        /\ \E k \in 1..Len(call.kwargs) : UnregisteredKey(call.kwargs[k][1], call.pre))
    => call.exc = "LookupError"

\* C7 as stated: when filter or exclude ends with LookupError or TypeError,
\* values() of the Record-Set is the same as before the call.
C7_UnchangedOnError ==
    (call.op \in {"filter", "exclude"} /\ call.exc \in {"LookupError", "TypeError"})
    => Values(store) = Values(call.pre)

\* C8: filter, exclude and filter_related never end with the no-match signal
\* ObjectNotFound: they return or raise another error.
C8_NoMatchNeverEscapes ==
    call.op \in {"filter", "exclude", "filter_related"} => call.exc # "ObjectNotFound"

\* A filter on a nested key returned without a Record whose nested collection
\* had no match
C8_Witness ==
    /\ call.op = "filter"
    /\ call.exc = NoExc
    /\ \E k \in 1..Len(call.kwargs) : StartsWith(call.kwargs[k][1], Join(sC, sB))
    /\ \E i \in 1..Len(call.pre.nodes) :
        /\ << i >> \notin Elems(call.kept)
        /\ Node_filter(call.pre.nodes[i], call.kwargs, seed).exc = "ObjectNotFound"
        /\ current_filters_loop(call.pre.nodes[i],
                parser_filters(call.pre.nodes[i], call.kwargs, seed).current, 1, 0).exc
            = NoExc

-----------------------------------------------------------------------------
(* Round trip (specification SpecRoundTrip): an input tree is loaded and    *)
(* values() is read back.                                                   *)

sA == <<"a">>
sAb == <<"a", "b">>

RtScalars == { PyInt(i) : i \in 1..MaxInt } \cup { PyNone, PyStr(sA) }

\* Scalars, the empty list and the empty mapping
RtLeaves == RtScalars \cup { PyList(<<>>), PyDict(<<>>) }

\* Lists of 1..MaxColl elements: of scalars, of lists, of mappings, or mixed
RtLists ==
    { PyList(s) :
        s \in UNION { [1..k -> { PyInt(1), PyList(<<>>), PyDict(<< << sA, PyInt(1) >> >>) }] :
                        k \in 1..MaxColl } }

\* The mappings with an optional key "a" and an optional key "deserialize"
RtMappings(values) ==
    { PyDict(Present(<< << sA, x >>, << sDeserialize, y >> >>)) :
        x \in values \cup { Absent }, y \in { Absent, PyInt(1) } }

RtInner == RtMappings(RtLeaves)

\* A mapping, or a list of at most MaxNodes mappings
Trees ==
    RtMappings(RtLeaves \cup RtLists \cup RtInner)
    \cup { PyList(s) : s \in UNION { [1..k -> RtInner] : k \in 0..MaxNodes } }

RtInit ==
    /\ seed = 0
    /\ raw \in Trees
    /\ store = Dataset_new(raw).obj
    /\ loaded = store
    /\ call = Idle
    /\ prev = Idle
    /\ parsed = Unread

\* Node(raw).values()
NodeValues ==
    /\ parsed.op = "none"
    /\ IsDict(raw)
    /\ LET read(node, r) ==
            parsed' = [op |-> "Node.values",
                       exc |-> IF node.exc # NoExc THEN node.exc ELSE r.exc,
                       obj |-> r.obj]
           built(node) == read(node, Node_values(node.obj))
       IN built(Node_new(raw))
    /\ UNCHANGED <<seed, store, loaded, call, prev, raw>>

\* Dataset(raw).values()
DatasetValues ==
    /\ parsed.op = "none"
    /\ LET read(dataset, r) ==
            parsed' = [op |-> "Dataset.values",
                       exc |-> IF dataset.exc # NoExc THEN dataset.exc ELSE r.exc,
                       obj |-> r.obj]
           built(dataset) == read(dataset, Dataset_values(dataset.obj))
       IN built(Dataset_new(raw))
    /\ UNCHANGED <<seed, store, loaded, call, prev, raw>>

RtNext == NodeValues \/ DatasetValues

SpecRoundTrip == RtInit /\ [][RtNext]_vars

\* C2 as stated: Node(d).values() is d, and Dataset(tree).values() is the list
\* of the input mappings, for every valid input tree.
C2_RoundTrip ==
    /\ parsed.op = "Node.values" => (parsed.exc = NoExc /\ parsed.obj = raw)
    /\ parsed.op = "Dataset.values" =>
            (parsed.exc = NoExc
             /\ parsed.obj = IF IsDict(raw) THEN PyList(<< raw >>) ELSE raw)

\* The same for the input trees without a key "deserialize" at any depth
RECURSIVE HasKey(_, _)
HasKey(tree, key) ==
    \/ tree.t = "dict" /\ \E k \in 1..Len(tree.items) :
            tree.items[k][1] = key \/ HasKey(tree.items[k][2], key)
    \/ tree.t = "list" /\ \E k \in 1..Len(tree.items) : HasKey(tree.items[k], key)

RoundTripOtherwise == HasKey(raw, sDeserialize) \/ C2_RoundTrip

-----------------------------------------------------------------------------
(* The Path Resolver on one Record (specification SpecResolver): a record   *)
(* with scalar or array fields named a, ab and id, and one raw key.         *)

ResolverNames == << sA, sAb, sId >>

\* The records with some of the fields, each a scalar or an array
ResolverRecords ==
    { PyDict(Present([k \in 1..Len(ResolverNames) |-> << ResolverNames[k], v[k] >>])) :
        v \in [1..Len(ResolverNames) ->
                { Absent, PyList(<< PyInt(1) >>) } \cup { PyInt(i) : i \in 1..MaxInt }] }
    \ { PyDict(<<>>) }

\* The predicate names registered for the variant of the field
RegisteredNames(field) == { p[1] : p \in get_lookups(field.cls) }

\* The raw keys f and f__p for the fields f of the node and the predicate
\* names p registered for f's variant
ResolverKeys(node) ==
    UNION { { get_name(node.fields[i]) }
            \cup { Join(get_name(node.fields[i]), p) : p \in RegisteredNames(node.fields[i]) } :
            i \in 1..Len(node.fields) }

RsInit ==
    /\ seed \in 0..MaxSeed
    /\ raw \in ResolverRecords
    /\ store = Dataset_new(PyList(<< raw >>)).obj
    /\ loaded = store
    /\ call = Idle
    /\ prev = Idle
    /\ parsed = Unread

\* node._parser_filters(**{key: value}) on the record of the store
Parse(key, value) ==
    /\ parsed.op = "none"
    /\ call.op = "idle"
    /\ LET resolved(r) ==
            parsed' = [op |-> "parse", key |-> key, value |-> value, exc |-> r.exc,
                       current |-> r.current, next |-> r.next]
       IN resolved(parser_filters(store.nodes[1], << << key, value >> >>, seed))
    /\ UNCHANGED <<seed, store, loaded, call, prev, raw>>

\* dataset.filter(**{key: value}) on the store
FilterKey(key, value) ==
    /\ parsed.op = "none"
    /\ DoFilter(<< << key, value >> >>)

RsNext ==
    \/ \E key \in ResolverKeys(store.nodes[1]), i \in 1..MaxInt : Parse(key, PyInt(i))
    \/ \E key \in ResolverKeys(store.nodes[1]), i \in 1..MaxInt : FilterKey(key, PyInt(i))

SpecResolver == RsInit /\ [][RsNext]_vars

\* C9 as stated: a raw key f__p, f a field of the Record and p a predicate name
\* registered for f's variant, is resolved to field f with predicate p, and the
\* resolver does not fail on it.
C9_FieldLookupKeyResolves ==
    parsed.op = "parse" =>
        \A i \in 1..Len(store.nodes[1].fields) :
            \A p \in RegisteredNames(store.nodes[1].fields[i]) :
                parsed.key = Join(get_name(store.nodes[1].fields[i]), p) =>
                    /\ parsed.exc = NoExc
                    /\ parsed.current =
                        << Filter(parsed.value, get_name(store.nodes[1].fields[i]), p) >>
                    /\ parsed.next = <<>>

\* C10 as stated: a raw key that is exactly the name of a field of the Record
\* resolves to that field with predicate exact, whatever other fields the
\* Record has, and filter(f=v) ends as filter(f__exact=v) does.
C10_BareKeyIsExact ==
    /\ parsed.op = "parse" =>
        \A i \in 1..Len(store.nodes[1].fields) :
            parsed.key = get_name(store.nodes[1].fields[i]) =>
                /\ parsed.exc = NoExc
                /\ parsed.current = << Filter(parsed.value, parsed.key, sExact) >>
                /\ parsed.next = <<>>
    /\ call.op = "filter" =>
        \A i \in 1..Len(call.pre.nodes[1].fields) :
            call.kwargs[1][1] = get_name(call.pre.nodes[1].fields[i]) =>
                LET r == Dataset_filter(call.pre,
                            << << Join(call.kwargs[1][1], sExact), call.kwargs[1][2] >> >>,
                            seed)
                IN /\ call.exc = r.exc
                   /\ call.exc = NoExc => call.kept = AsPaths(r.kept)

-----------------------------------------------------------------------------
(* The valid paths of a Record (specification SpecPaths): a record with an  *)
(* optional scalar id, an optional Record-Collection c whose records have   *)
(* b, x or both, and an optional Nested-Record a_ = {b: 1}; one raw key     *)
(* is parsed or used as the only keyword of filter.                         *)

sA_ == <<"a", "_">>
sX == <<"x">>

PathLeaves ==
    { PyDict(<< << sB, PyInt(i) >> >>) : i \in 1..MaxInt }
    \cup { PyDict(<< << sX, PyInt(1) >> >>),
           PyDict(<< << sB, PyInt(1) >>, << sX, PyInt(1) >> >>) }

PathColls == { PyList(s) : s \in UNION { [1..k -> PathLeaves] : k \in 1..MaxColl } }

PathRecords ==
    { PyDict(Present(<< << sId, id >>, << sC, c >>, << sA_, n >> >>)) :
        id \in { Absent, PyInt(1) },
        c \in { Absent } \cup PathColls,
        n \in { Absent, PyDict(<< << sB, PyInt(1) >> >>) } } \ { PyDict(<<>>) }

\* The raw keys: every valid path, every valid path with __exact, and every
\* field name directly followed by other characters
PathKeys(node) ==
    get_filters(node)
    \cup { Join(f, sExact) : f \in get_filters(node) }
    \cup { get_name(node.fields[i]) \o tail :
            i \in 1..Len(node.fields), tail \in { sExact, sX } }

PaInit ==
    /\ seed \in 0..MaxSeed
    /\ raw \in PathRecords
    /\ store = Dataset_new(PyList(<< raw >>)).obj
    /\ loaded = store
    /\ call = Idle
    /\ prev = Idle
    /\ parsed = Unread

PaNext ==
    \/ \E key \in PathKeys(store.nodes[1]), i \in 1..MaxInt : Parse(key, PyInt(i))
    \/ \E key \in PathKeys(store.nodes[1]), i \in 1..MaxInt : FilterKey(key, PyInt(i))

SpecPaths == PaInit /\ [][PaNext]_vars

\* The valid paths of a node as sequences of field names: each field, and each
\* field followed by a valid path of a Record reachable through it
RECURSIVE ValidPaths(_)
ValidPaths(node) ==
    UNION { { << get_name(node.fields[i]) >> }
            \cup { << get_name(node.fields[i]) >> \o q :
                    q \in UNION { ValidPaths(related_node(node.fields[i])[j]) :
                                    j \in 1..Len(related_node(node.fields[i])) } } :
            i \in 1..Len(node.fields) }

\* The segments joined by the separator
RECURSIVE JoinPath(_)
JoinPath(path) ==
    IF Len(path) = 1 THEN path[1] ELSE Join(path[1], JoinPath(Tail(path)))

\* The key is the path, or the path followed by the separator and a remainder
MatchesAtBoundary(key, path) ==
    key = JoinPath(path) \/ StartsWith(key, JoinPath(path) \o LOOKUP_SEP)

\* The valid paths that match the key, and those of them with the most segments
BoundaryMatches(node, key) == { q \in ValidPaths(node) : MatchesAtBoundary(key, q) }

LongestMatches(node, key) ==
    { q \in BoundaryMatches(node, key) :
        \A o \in BoundaryMatches(node, key) : Len(o) =< Len(q) }

\* C11 as stated: when the matching valid path with the most segments has more
\* than one segment, the resolver forwards the key to the field named by the
\* path's first segment, with that segment and one separator stripped.
C11_LongestMatchForwards ==
    parsed.op = "parse" =>
        \A q \in LongestMatches(store.nodes[1], parsed.key) :
            Len(q) > 1 =>
                /\ parsed.exc = NoExc
                /\ parsed.current = <<>>
                /\ parsed.next =
                    << [parent |-> q[1],
                        params |-> << << SubSeq(parsed.key, Len(q[1]) + Len(LOOKUP_SEP) + 1,
                                                Len(parsed.key)),
                                         parsed.value >> >>] >>

\* C12 as stated: a valid path is taken for a raw key only when the key is the
\* path or begins with the path followed by the separator, and a filter call
\* whose key matches no valid path in that way fails with FilterDoesNotExist.
C12_TokenBoundary ==
    /\ parsed.op = "parse" =>
        \A f \in MatchingFilters(store.nodes[1], parsed.key) :
            parsed.key = f \/ StartsWith(parsed.key, f \o LOOKUP_SEP)
    /\ call.op = "filter" =>
        (BoundaryMatches(call.pre.nodes[1], call.kwargs[1][1]) = {}
            => call.exc = "FilterDoesNotExist")

\* C13 as stated: filter(p=v) with p a valid path of the Record, as
\* get_filters returns them, never fails with FilterDoesNotExist.
C13_ValidPathAccepted ==
    (call.op = "filter" /\ call.kwargs[1][1] \in get_filters(call.pre.nodes[1]))
        => call.exc # "FilterDoesNotExist"

-----------------------------------------------------------------------------
(* Construction (specification SpecFields): one raw value is classified     *)
(* under a name, or loaded as the only entry of a Record or of the only     *)
(* Record of a Record-Set.                                                  *)

sA__ == <<"a", "_", "_">>
sA__b == <<"a", "_", "_", "b">>

FieldNames == { sA, sA_, sA__, sA__b, sProtectedName, sGetName }

FdScalars == { PyInt(1), PyNone, PyStr(sA) }

\* The mappings of one entry, and the empty mapping
FdMappings ==
    { PyDict(<< << name, v >> >>) : name \in FieldNames, v \in { PyInt(1), PyStr(sA) } }
    \cup { PyDict(<<>>) }

\* What a list or a tuple holds
FdElements ==
    { PyInt(1), PyList(<< PyInt(1) >>),
      PyDict(<< << sA, PyInt(1) >> >>), PyDict(<< << sA__b, PyInt(1) >> >>) }

\* Lists and tuples of at most MaxColl elements
FdSequences ==
    { [t |-> t, n |-> 0, items |-> s] :
        t \in { "list", "tuple" },
        s \in UNION { [1..k -> FdElements] : k \in 0..MaxColl } }

FdValues == FdScalars \cup FdMappings \cup FdSequences

FdInit ==
    /\ seed = 0
    /\ raw \in FdValues
    /\ store = MkDataset(<<>>)
    /\ loaded = store
    /\ call = Idle
    /\ prev = Idle
    /\ parsed = Unread

\* get_field_class(name, raw)
Classify(name) ==
    /\ parsed.op = "none"
    /\ LET built(r) ==
            parsed' = [op |-> "get_field_class", name |-> name, exc |-> r.exc,
                       obj |-> r.obj]
       IN built(get_field_class(name, raw))
    /\ UNCHANGED <<seed, store, loaded, call, prev, raw>>

\* Node({name: raw})
NewNode(name) ==
    /\ parsed.op = "none"
    /\ LET built(r) ==
            parsed' = [op |-> "Node", name |-> name, exc |-> r.exc, obj |-> r.obj]
       IN built(Node_new(PyDict(<< << name, raw >> >>)))
    /\ UNCHANGED <<seed, store, loaded, call, prev, raw>>

\* Dataset([{name: raw}])
NewDataset(name) ==
    /\ parsed.op = "none"
    /\ LET built(r) ==
            /\ parsed' = [op |-> "Dataset", name |-> name, exc |-> r.exc, obj |-> r.obj]
            /\ store' = IF r.exc = NoExc THEN r.obj ELSE store
       IN built(Dataset_new(PyList(<< PyDict(<< << name, raw >> >>) >>)))
    /\ UNCHANGED <<seed, loaded, call, prev, raw>>

FdNext ==
    \/ \E name \in FieldNames : Classify(name)
    \/ \E name \in FieldNames : NewNode(name)
    \/ \E name \in FieldNames : NewDataset(name)

SpecFields == FdInit /\ [][FdNext]_vars

\* A key with the separator in it, at any depth of a raw value
RECURSIVE HasSeparatorKey(_)
HasSeparatorKey(tree) ==
    \/ tree.t = "dict" /\ \E k \in 1..Len(tree.items) :
            Contains(tree.items[k][1], LOOKUP_SEP) \/ HasSeparatorKey(tree.items[k][2])
    \/ tree.t \in { "list", "tuple" } /\ \E k \in 1..Len(tree.items) :
            HasSeparatorKey(tree.items[k])

Constructed == parsed.op \in { "get_field_class", "Node", "Dataset" }

\* C14 as stated: constructing a Value whose name contains (or ends with) the
\* separator fails with NameError, and building a Value, a Record or a
\* Record-Set from a tree with such a key at any depth fails.
C14_SeparatorNameRejected ==
    Constructed =>
        /\ Contains(parsed.name, LOOKUP_SEP) => parsed.exc = "NameError"
        /\ HasSeparatorKey(raw) => parsed.exc # NoExc

\* The class the classification rule gives a raw value
ClassOf(value) ==
    IF value.t = "dict" THEN "NodeField"
    ELSE IF value.t \in { "list", "tuple" }
    THEN IF \A k \in 1..Len(value.items) : value.items[k].t = "dict"
         THEN "DatasetField" ELSE "ArrayField"
    ELSE "ValueField"

\* C15 as stated: for a name without the separator and a raw value,
\* get_field_class succeeds and gives the class of the rule; the elements of an
\* Array are classified by the same rule under the same name.
C15_Classification ==
    (/\ parsed.op = "get_field_class"
     /\ ~Contains(parsed.name, LOOKUP_SEP)
     /\ ~HasSeparatorKey(raw)) =>
        /\ parsed.exc = NoExc
        /\ parsed.obj.cls = ClassOf(raw)
        /\ ClassOf(raw) = "ArrayField" =>
                /\ Len(parsed.obj.value) = Len(raw.items)
                /\ \A k \in 1..Len(raw.items) :
                        /\ parsed.obj.value[k].cls = ClassOf(raw.items[k])
                        /\ parsed.obj.value[k].protected_name__ = parsed.name

-----------------------------------------------------------------------------
(* Array length (specification SpecArrays): Records with one field a loaded *)
(* from a list of scalars, filtered by a__len.                              *)

\* The lists of at most MaxColl scalars, the empty list included
ArLists ==
    { PyList(s) : s \in UNION { [1..n -> { PyInt(1), PyStr(sA) }] : n \in 0..MaxColl } }

ArRecords == { PyDict(<< << sA, l >> >>) : l \in ArLists }

ArStores == { PyList(s) : s \in UNION { [1..n -> ArRecords] : n \in 1..MaxNodes } }

ArInit ==
    /\ seed = 0
    /\ raw \in ArStores
    /\ store = Dataset_new(raw).obj
    /\ loaded = store
    /\ call = Idle
    /\ prev = Idle
    /\ parsed = Unread

\* dataset.filter(a__len=k)
FilterLen(k) == DoFilter(<< << Join(sA, sLen), PyInt(k) >> >>)

ArNext == \E k \in 0..MaxInt : FilterLen(k)

SpecArrays == ArInit /\ [][ArNext]_vars

\* The number of elements of the sequence that field a of the i-th input
\* Record was loaded from
LoadedLength(i) == Len(raw.items[i].items[1][2].items)

\* C16 as stated: filter(a__len=k) keeps a Record iff its field a was loaded
\* from a sequence of exactly k scalars, for every length from 0.
C16_ArrayLength ==
    call.op = "filter" =>
        /\ call.exc = NoExc
        /\ \A i \in 1..Len(raw.items) :
                << i >> \in Elems(call.kept) <=> LoadedLength(i) = call.kwargs[1][2].n

-----------------------------------------------------------------------------
(* Equality and hashing of Fields, Nodes and Datasets.  An object is taken  *)
(* with its address `at`, a string that no other live object has: the       *)
(* default repr of a Field prints it, and a comparison inside a list or a   *)
(* set is skipped for an object and itself.  A hash is carried as what was  *)
(* hashed: a str, or the "-"-joined sorted hashes of its parts (the same    *)
(* str for two objects exactly when the parts have the same hashes, in any  *)
(* order).  A set is walked in the order of its hashes, which the seed      *)
(* chooses.                                                                 *)

Digits == <<"0", "1", "2", "3", "4", "5", "6", "7", "8", "9">>

\* str(n) of an int
RECURSIVE IntStr(_)
IntStr(n) ==
    IF n < 0 THEN <<"-">> \o IntStr(-n)
    ELSE IF n < 10 THEN << Digits[n + 1] >>
    ELSE IntStr(n \div 10) \o << Digits[(n % 10) + 1] >>

\* The address of the i-th object that the object at `at` holds
Sub(at, i) == at \o <<".">> \o IntStr(i)

\* A node with its address, and the nodes of a Dataset held by the object at `at`
Ref(at, node) == [at |-> at, node |-> node]
Refs(nodes, at) == [i \in 1..Len(nodes) |-> Ref(Sub(at, i), nodes[i])]

\* str(v) of a decoded scalar
Scalar_str(v) ==
    IF v.t = "int" THEN IntStr(v.n)
    ELSE IF v.t = "bool" THEN (IF v.n = 0 THEN <<"F", "a", "l", "s", "e">> ELSE <<"T", "r", "u", "e">>)
    ELSE IF v.t = "NoneType" THEN <<"N", "o", "n", "e">>
    ELSE v.items

\* sep.join(strs)
RECURSIVE JoinStrs(_, _)
JoinStrs(strs, sep) ==
    IF strs = <<>> THEN <<>>
    ELSE IF Len(strs) = 1 THEN strs[1]
    ELSE strs[1] \o sep \o JoinStrs(Tail(strs), sep)

\* cls.__name__
ClassName(cls) ==
    CASE cls = "ValueField" -> <<"V", "a", "l", "u", "e", "F", "i", "e", "l", "d">>
      [] cls = "ArrayField" -> <<"A", "r", "r", "a", "y", "F", "i", "e", "l", "d">>
      [] cls = "NodeField" -> <<"N", "o", "d", "e", "F", "i", "e", "l", "d">>
      [] cls = "DatasetField" -> <<"D", "a", "t", "a", "s", "e", "t", "F", "i", "e", "l", "d">>

\* object.__repr__ of a Field (Field defines neither __repr__ nor __str__)
Field_repr(field, at) ==
    <<"<", "d", "a", "t", "a", "l", "o", "o", "k", "u", "p", ".", "f", "i", "e", "l", "d", "s", ".">> \o ClassName(field.cls) \o <<" ", "o", "b", "j", "e", "c", "t", " ", "a", "t", " ", "0", "x">> \o at \o <<">">>

RECURSIVE Value_str(_, _)
RECURSIVE Node_str(_, _)

\* Dataset.__repr__
Dataset_repr(nodes, at) ==
    LET shown(i) ==
            IF i > REPR_OUTPUT_SIZE THEN <<"'", ".", ".", ".", "(", "r", "e", "m", "a", "i", "n", "i", "n", "g", " ", "e", "l", "e", "m", "e", "n", "t", "s", " ", "t", "r", "u", "n", "c", "a", "t", "e", "d", ")", ".", ".", ".", "'">>
            ELSE <<"<", "N", "o", "d", "e", ":", " ">> \o Node_str(nodes[i], Sub(at, i)) \o <<">">>
    IN <<"<", "D", "a", "t", "a", "s", "e", "t", " ", "[">>
       \o JoinStrs([i \in 1..Min2(Len(nodes), REPR_OUTPUT_SIZE + 1) |-> shown(i)], <<",", " ">>)
       \o <<"]", ">">>

\* str(field.get_value()) of the field at `at`
Value_str(field, at) ==
    IF field.cls = "ValueField" THEN Scalar_str(get_value(field))
    ELSE IF field.cls = "ArrayField"
    THEN <<"[">>
         \o JoinStrs([i \in 1..Len(get_value(field)) |->
                         Field_repr(get_value(field)[i], Sub(at, i))], <<",", " ">>)
         \o <<"]">>
    ELSE IF field.cls = "NodeField" THEN Node_str(get_value(field), Sub(at, 1))
    ELSE Dataset_repr(get_value(field).nodes, at)

\* Node.__str__
Node_str(node, at) ==
    <<"N", "o", "d", "e", " ", "o", "b", "j", "e", "c", "t", " ", "(">> \o Value_str(node.fields[1], Sub(at, 1)) \o <<")">>

\* hash(s) of a str, and hash("-".join([str(i) for i in sorted(hash_list)]))
HashOfStr(s) == [s |-> s, parts |-> <<>>]
HashOfList(hash_list) == [s |-> <<>>, parts |-> hash_list]

RECURSIVE Field_hash(_, _)
RECURSIVE Node_hash(_, _)

\* Field.__hash__ with Field.get_hash_list, ArrayField.get_hash_list and
\* DatasetField.get_hash_list
Field_hash(field, at) ==
    IF field.cls = "ArrayField"
    THEN HashOfList(<< HashOfStr(get_name(field)) >>
                    \o [i \in 1..Len(get_value(field)) |->
                           Field_hash(get_value(field)[i], Sub(at, i))])
    ELSE IF field.cls = "DatasetField"
    THEN HashOfList(<< HashOfStr(get_name(field)) >>
                    \o [i \in 1..Len(get_value(field).nodes) |->
                           Node_hash(get_value(field).nodes[i], Sub(at, i))])
    ELSE HashOfList(<< HashOfStr(get_name(field)), HashOfStr(Value_str(field, at)) >>)

\* Node.__hash__
Node_hash(node, at) ==
    HashOfList([i \in 1..Len(node.fields) |-> Field_hash(node.fields[i], Sub(at, i))])

RemoveAt(s, j) == SubSeq(s, 1, j - 1) \o SubSeq(s, j + 1, Len(s))

\* Two hashes are the same int
RECURSIVE SameHash(_, _)
RECURSIVE SameParts(_, _)
SameParts(a, b) ==
    /\ Len(a) = Len(b)
    /\ \/ a = <<>>
       \/ \E j \in 1..Len(b) :
            SameHash(a[1], b[j]) /\ SameParts(Tail(a), RemoveAt(b, j))

SameHash(h, g) == h.s = g.s /\ SameParts(h.parts, g.parts)

\* The k-th of n elements in the order of their hashes
Order(n, sd, k) == IF sd = 0 THEN k ELSE n + 1 - k

\* isinstance(o, self.__class__) for two fields
IsInstanceOf(o_cls, self_cls) ==
    o_cls = self_cls \/ (o_cls = "ArrayField" /\ self_cls = "ValueField")

RECURSIVE Field_eq(_, _, _, _, _)
RECURSIVE List_eq(_, _, _, _, _, _)
RECURSIVE Node_eq(_, _, _, _, _)
RECURSIVE Field_lookup(_, _, _, _, _, _)
RECURSIVE Node_subset(_, _, _, _, _, _)
RECURSIVE Ref_lookup(_, _, _, _)
RECURSIVE BuildSet(_, _, _, _)
RECURSIVE Refs_subset(_, _, _, _)
RECURSIVE Dataset_eq(_, _, _)

\* list.__eq__ on two lists of Fields of one length, from position i
List_eq(xs, ys, ax, ay, sd, i) ==
    IF i > Len(xs) THEN Ok(TRUE)
    ELSE IF Sub(ax, i) = Sub(ay, i) THEN List_eq(xs, ys, ax, ay, sd, i + 1)
    ELSE LET compared(r) ==
                 IF r.exc # NoExc THEN r
                 ELSE IF ~r.obj THEN Ok(FALSE)
                 ELSE List_eq(xs, ys, ax, ay, sd, i + 1)
         IN compared(Field_eq(xs[i], ys[i], Sub(ax, i), Sub(ay, i), sd))

\* Field.__eq__
Field_eq(self, o, as, ao, sd) ==
    IF ~IsInstanceOf(o.cls, self.cls) THEN Ok(FALSE)
    ELSE IF get_name(self) # get_name(o) THEN Ok(FALSE)
    ELSE IF self.cls = "ValueField"
    THEN IF o.cls = "ValueField" THEN Ok(PyEq(get_value(self), get_value(o)))
         ELSE Ok(FALSE)
    ELSE IF self.cls = "ArrayField"
    THEN IF Len(get_value(self)) # Len(get_value(o)) THEN Ok(FALSE)
         ELSE List_eq(get_value(self), get_value(o), as, ao, sd, 1)
    ELSE IF self.cls = "NodeField"
    THEN Node_eq(get_value(self), get_value(o), Sub(as, 1), Sub(ao, 1), sd)
    ELSE Dataset_eq(Refs(get_value(self).nodes, as), Refs(get_value(o).nodes, ao), sd)

\* key in set(o.fields.values()): the entries of the same hash, each the key
\* itself or compared with it
Field_lookup(key, ak, o, ao, sd, j) ==
    IF j > Len(o.fields) THEN Ok(FALSE)
    ELSE IF ~SameHash(Field_hash(o.fields[j], Sub(ao, j)), Field_hash(key, ak))
    THEN Field_lookup(key, ak, o, ao, sd, j + 1)
    ELSE IF Sub(ao, j) = ak THEN Ok(TRUE)
    ELSE LET compared(r) ==
                 IF r.exc # NoExc THEN r
                 ELSE IF r.obj THEN Ok(TRUE)
                 ELSE Field_lookup(key, ak, o, ao, sd, j + 1)
         IN compared(Field_eq(o.fields[j], key, Sub(ao, j), ak, sd))

\* set(self.fields.values()) == set(o.fields.values()) for two sets of one
\* size: every Field of the first is in the second, from the k-th on
Node_subset(self, o, as, ao, sd, k) ==
    IF k > Len(self.fields) THEN Ok(TRUE)
    ELSE LET i == Order(Len(self.fields), sd, k)
             looked(r) ==
                 IF r.exc # NoExc THEN r
                 ELSE IF ~r.obj THEN Ok(FALSE)
                 ELSE Node_subset(self, o, as, ao, sd, k + 1)
         IN looked(Field_lookup(self.fields[i], Sub(as, i), o, ao, sd, 1))

\* Node.__eq__ (both are Nodes): the two sets are built, which hashes every
\* Field, and compared
Node_eq(self, o, as, ao, sd) ==
    LET hashed(e) ==
            IF e # NoExc THEN Raise(e, FALSE)
            ELSE IF Len(self.fields) # Len(o.fields) THEN Ok(FALSE)
            ELSE Node_subset(self, o, as, ao, sd, 1)
    IN hashed(FirstOf(<< Node_hash_exc(self), Node_hash_exc(o) >>))

\* key in a set of nodes (kept as the sequence of its entries)
Ref_lookup(key, entries, sd, j) ==
    IF j > Len(entries) THEN Ok(FALSE)
    ELSE IF ~SameHash(Node_hash(entries[j].node, entries[j].at), Node_hash(key.node, key.at))
    THEN Ref_lookup(key, entries, sd, j + 1)
    ELSE IF entries[j].at = key.at THEN Ok(TRUE)
    ELSE LET compared(r) ==
                 IF r.exc # NoExc THEN r
                 ELSE IF r.obj THEN Ok(TRUE)
                 ELSE Ref_lookup(key, entries, sd, j + 1)
         IN compared(Node_eq(entries[j].node, key.node, entries[j].at, key.at, sd))

\* set(nodes): each node is hashed and added unless the set has it
BuildSet(refs, sd, i, entries) ==
    IF i > Len(refs) THEN Ok(entries)
    ELSE IF Node_hash_exc(refs[i].node) # NoExc
    THEN Raise(Node_hash_exc(refs[i].node), entries)
    ELSE LET looked(r) ==
                 IF r.exc # NoExc THEN Raise(r.exc, entries)
                 ELSE BuildSet(refs, sd, i + 1,
                               IF r.obj THEN entries ELSE Append(entries, refs[i]))
         IN looked(Ref_lookup(refs[i], entries, sd, 1))

\* Two sets of nodes of one size: every node of the first is in the second
Refs_subset(xs, ys, sd, k) ==
    IF k > Len(xs) THEN Ok(TRUE)
    ELSE LET looked(r) ==
                 IF r.exc # NoExc THEN r
                 ELSE IF ~r.obj THEN Ok(FALSE)
                 ELSE Refs_subset(xs, ys, sd, k + 1)
         IN looked(Ref_lookup(xs[Order(Len(xs), sd, k)], ys, sd, 1))

\* Dataset.__eq__ (both are Datasets), on the nodes with their addresses
Dataset_eq(self, o, sd) ==
    LET second(xs, ys) ==
            IF ys.exc # NoExc THEN Raise(ys.exc, FALSE)
            ELSE IF Len(xs.obj) # Len(ys.obj) THEN Ok(FALSE)
            ELSE Refs_subset(xs.obj, ys.obj, sd, 1)
        first(xs) ==
            IF xs.exc # NoExc THEN Raise(xs.exc, FALSE)
            ELSE second(xs, BuildSet(o, sd, 1, <<>>))
    IN first(BuildSet(self, sd, 1, <<>>))

\* node in nodes, for a list or for the iteration of a Dataset: the first
\* entry that is the node or equals it
RECURSIVE Nodes_contain(_, _, _, _)
Nodes_contain(refs, key, sd, j) ==
    IF j > Len(refs) THEN Ok(FALSE)
    ELSE IF refs[j].at = key.at THEN Ok(TRUE)
    ELSE LET compared(r) ==
                 IF r.exc # NoExc THEN r
                 ELSE IF r.obj THEN Ok(TRUE)
                 ELSE Nodes_contain(refs, key, sd, j + 1)
         IN compared(Node_eq(refs[j].node, key.node, refs[j].at, key.at, sd))

\* The loop of Dataset.distinct and of Dataset.__or__: the nodes from the i-th
\* on are appended unless `kept` has them
RECURSIVE append_missing(_, _, _, _)
append_missing(refs, sd, i, kept) ==
    IF i > Len(refs) THEN Ok(kept)
    ELSE LET looked(r) ==
                 IF r.exc # NoExc THEN Raise(r.exc, kept)
                 ELSE append_missing(refs, sd, i + 1,
                                     IF r.obj THEN kept ELSE Append(kept, refs[i]))
         IN looked(Nodes_contain(kept, refs[i], sd, 1))

\* Dataset.distinct
Dataset_distinct(self, sd) == append_missing(self, sd, 1, <<>>)

\* Dataset.__or__
Dataset_or(self, other, sd) ==
    LET distinct(r) ==
            IF r.exc # NoExc THEN r ELSE append_missing(other, sd, 1, r.obj)
    IN distinct(Dataset_distinct(self, sd))

-----------------------------------------------------------------------------
(* distinct and union (specification SpecSets): two Record-Sets a and b,    *)
(* each loaded from its own list of Records, so that no object is shared.   *)

SetInner == { PyDict(<< << sA, PyInt(1) >>, << sB, PyInt(2) >> >>),
              PyDict(<< << sB, PyInt(2) >>, << sA, PyInt(1) >> >>),
              PyDict(<< << sA, PyList(<< PyInt(1) >>) >> >>),
              PyDict(<<>>) }

SetRecords ==
    { PyDict(<< << sA, PyInt(i) >> >>) : i \in 1..MaxInt }
    \cup { PyDict(<< << sA, PyInt(1) >>, << sB, PyInt(2) >> >>),
           PyDict(<< << sB, PyInt(2) >>, << sA, PyInt(1) >> >>),
           PyDict(<< << sC, PyList(<< PyDict(<< << sA, PyInt(1) >> >>) >>) >> >>) }
    \cup { PyDict(<< << sN, d >> >>) : d \in SetInner }

SetLists == { PyList(s) : s \in UNION { [1..n -> SetRecords] : n \in 0..MaxNodes } }

SsInit ==
    /\ seed \in 0..MaxSeed
    /\ raw \in SetLists \X SetLists
    /\ store = Dataset_new(raw[1]).obj
    /\ loaded = Dataset_new(raw[2]).obj
    /\ call = Idle
    /\ prev = Idle
    /\ parsed = Unread

\* The nodes of a and of b as objects
NodesA == Refs(store.nodes, <<"a">>)
NodesB == Refs(loaded.nodes, <<"b">>)

\* d = a.distinct()
Distinct ==
    /\ call.op = "idle"
    /\ LET returned(r) ==
            call' = [op |-> "distinct", times |-> 1, pre |-> NodesA, exc |-> r.exc,
                     nodes |-> r.obj]
       IN returned(Dataset_distinct(NodesA, seed))
    /\ UNCHANGED <<seed, store, loaded, prev, raw, parsed>>

\* d.distinct() on what a.distinct() returned
DistinctAgain ==
    /\ call.op = "distinct"
    /\ call.times = 1
    /\ call.exc = NoExc
    /\ LET returned(r) ==
            call' = [op |-> "distinct", times |-> 2, pre |-> call.nodes, exc |-> r.exc,
                     nodes |-> r.obj]
       IN returned(Dataset_distinct(call.nodes, seed))
    /\ UNCHANGED <<seed, store, loaded, prev, raw, parsed>>

\* What  x | y  and then  (x | y) == z  give
OrThenEq(xy, z) ==
    IF xy.exc # NoExc THEN Raise(xy.exc, FALSE) ELSE Dataset_eq(xy.obj, z, seed)

\* (a | b) == (b | a)
Union ==
    /\ call.op = "idle"
    /\ LET compared(ab, ba, eq) ==
            call' = [op |-> "or", ab |-> ab, ba |-> ba,
                     exc |-> FirstOf(<< ab.exc, ba.exc, eq.exc >>), eq |-> eq.obj]
           second(ab, ba) ==
            compared(ab, ba, IF ba.exc # NoExc THEN Raise(ba.exc, FALSE)
                             ELSE OrThenEq(ab, ba.obj))
           first(ab) == second(ab, Dataset_or(NodesB, NodesA, seed))
       IN first(Dataset_or(NodesA, NodesB, seed))
    /\ UNCHANGED <<seed, store, loaded, prev, raw, parsed>>

\* (a | a) == a
UnionSelf ==
    /\ call.op = "idle"
    /\ LET compared(aa, eq) ==
            call' = [op |-> "or_self", aa |-> aa,
                     exc |-> FirstOf(<< aa.exc, eq.exc >>), eq |-> eq.obj]
           first(aa) == compared(aa, OrThenEq(aa, NodesA))
       IN first(Dataset_or(NodesA, NodesA, seed))
    /\ UNCHANGED <<seed, store, loaded, prev, raw, parsed>>

\* Dataset.__hash__: hash_list(self.nodes), the hash of every node in the list
Dataset_hash_exc(refs) ==
    FirstOf([i \in 1..Len(refs) |-> Node_hash_exc(refs[i].node)])

Dataset_hash(refs) ==
    HashOfList([i \in 1..Len(refs) |-> Node_hash(refs[i].node, refs[i].at)])

\* a == b, then hash(a) == hash(b)
EqThenHashes ==
    /\ call.op = "idle"
    /\ LET hashed(eq, e) ==
            call' = [op |-> "eq_hash", exc |-> FirstOf(<< eq.exc, e >>), eq |-> eq.obj,
                     same_hash |-> IF e # NoExc THEN FALSE
                                   ELSE SameHash(Dataset_hash(NodesA), Dataset_hash(NodesB))]
       IN hashed(Dataset_eq(NodesA, NodesB, seed),
                 FirstOf(<< Dataset_hash_exc(NodesA), Dataset_hash_exc(NodesB) >>))
    /\ UNCHANGED <<seed, store, loaded, prev, raw, parsed>>

SsNext == Distinct \/ DistinctAgain \/ Union \/ UnionSelf \/ EqThenHashes

SpecSets == SsInit /\ [][SsNext]_vars

\* Structural equality as the data model defines it: two Values are equal by
\* name and resolved value, two Records iff their Value sets are equal, two
\* Record-Sets iff they hold the same Records as a set.
RECURSIVE StructEqField(_, _)
RECURSIVE StructEqNode(_, _)
StructEqNodes(xs, ys) ==
    /\ \A i \in 1..Len(xs) : \E j \in 1..Len(ys) : StructEqNode(xs[i], ys[j])
    /\ \A j \in 1..Len(ys) : \E i \in 1..Len(xs) : StructEqNode(xs[i], ys[j])

StructEqField(f, g) ==
    /\ f.cls = g.cls
    /\ f.protected_name__ = g.protected_name__
    /\ IF f.cls = "ValueField" THEN f.value = g.value
       ELSE IF f.cls = "ArrayField"
       THEN /\ Len(f.value) = Len(g.value)
            /\ \A i \in 1..Len(f.value) : StructEqField(f.value[i], g.value[i])
       ELSE IF f.cls = "NodeField" THEN StructEqNode(f.value, g.value)
       ELSE StructEqNodes(f.value.nodes, g.value.nodes)

StructEqNode(x, y) ==
    /\ Len(x.fields) = Len(y.fields)
    /\ \A i \in 1..Len(x.fields) : \E j \in 1..Len(y.fields) :
            StructEqField(x.fields[i], y.fields[j])

\* The objects of a sequence at the given positions, in order
RECURSIVE AtPositions(_, _, _)
AtPositions(refs, keep, i) ==
    IF i > Len(refs) THEN <<>>
    ELSE (IF i \in keep THEN << refs[i] >> ELSE <<>>) \o AtPositions(refs, keep, i + 1)

\* The first occurrence of every Record, up to structural equality
FirstOccurrences(refs) ==
    AtPositions(refs,
                { i \in 1..Len(refs) :
                    \A j \in 1..(i - 1) : ~StructEqNode(refs[j].node, refs[i].node) },
                1)

\* C17 as stated: distinct() returns the first occurrence of every Record of
\* the receiver, in the receiver's order, with no two structurally equal
\* Records, and distinct() of that result has the same sequence.
C17_Distinct ==
    call.op = "distinct" =>
        /\ call.exc = NoExc
        /\ call.nodes = FirstOccurrences(call.pre)
        /\ call.times = 2 => call.nodes = call.pre

\* C18 as stated: a | b == b | a and a | a == a, and a | b is a.distinct()
\* followed by the Records of b not already present, with no two structurally
\* equal Records.
C18_Union ==
    /\ call.op = "or" =>
            /\ call.exc = NoExc
            /\ call.eq
            /\ call.ab.obj = FirstOccurrences(NodesA \o NodesB)
    /\ call.op = "or_self" =>
            /\ call.exc = NoExc
            /\ call.eq
            /\ call.aa.obj = FirstOccurrences(NodesA)

-----------------------------------------------------------------------------
(* The lookup registry under registration (specification SpecRegistry).     *)
(* `loaded` holds the classes of fields.py as the import of the package     *)
(* left them and as register_lookup changes them: each class's own          *)
(* class_lookups, and the functools.lru_cache of get_lookups, keyed by the  *)
(* class.                                                                   *)

MaxRegs == 2

Classes == { "Field", "ValueField", "ArrayField", "RelatedField", "NodeField", "DatasetField" }

sP == <<"p">>

\* Classes a caller passes to register_lookup: P is a subclass of Lookup with
\* lookup_name = "p", int is not a subclass of Lookup
Registrable == { "P", "int" }

\* issubclass(lookup, Lookup)
IsLookup(lookup) == lookup # "int"

\* lookup.lookup_name
lookup_name_of(lookup) == IF lookup = "P" THEN sP ELSE <<>>

NotCached == [hit |-> FALSE, lookups |-> {}]

\* The classes after the import, nothing resolved yet
Imported ==
    [class_lookups |-> [c \in Classes |-> class_lookups(c)],
     cache |-> [c \in Classes |-> NotCached],
     regs |-> 0]

\* RegisterLookupMixin.get_lookups behind functools.lru_cache: the dict and
\* the classes with their cache after the call
cached_get_lookups(reg, cls) ==
    IF reg.cache[cls].hit THEN [lookups |-> reg.cache[cls].lookups, reg |-> reg]
    ELSE LET merged(d) ==
                 [lookups |-> d,
                  reg |-> [reg EXCEPT !.cache[cls] = [hit |-> TRUE, lookups |-> d]]]
         IN merged(merge_dicts([i \in 1..Len(mro(cls)) |-> reg.class_lookups[mro(cls)[i]]]))

\* dict.get(lookup_name, None)
DictGet(d, lookup_name) ==
    IF \E p \in d : p[1] = lookup_name
    THEN (CHOOSE p \in d : p[1] = lookup_name)[2]
    ELSE "None"

\* RegisterLookupMixin.register_lookup: [exc, obj], obj the classes after it
register_lookup(reg, cls, lookup, lookup_name) ==
    IF ~IsLookup(lookup) THEN Raise("LookupRegistryError", reg)
    ELSE Ok([reg EXCEPT
                !.class_lookups[cls] =
                    DictUpdate(@, { << IF lookup_name = "None" THEN lookup_name_of(lookup)
                                       ELSE lookup_name, lookup >> }),
                !.regs = @ + 1])

\* cls.register_lookup(lookup, lookup_name)
Register(cls, lookup, lookup_name) ==
    /\ loaded.regs < MaxRegs
    /\ LET registered(r) ==
            /\ loaded' = r.obj
            /\ call' = [op |-> "register_lookup", cls |-> cls, name |-> lookup_name,
                        lookup |-> lookup, exc |-> r.exc, result |-> "None",
                        pre |-> loaded]
       IN registered(register_lookup(loaded, cls, lookup, lookup_name))
    /\ UNCHANGED <<seed, store, prev, raw, parsed>>

\* cls._get_lookup(lookup_name), what field.get_lookup(lookup_name) calls
Resolve(cls, lookup_name) ==
    /\ LET resolved(r) ==
            /\ loaded' = r.reg
            /\ call' = [op |-> "get_lookup", cls |-> cls, name |-> lookup_name,
                        lookup |-> "None", exc |-> NoExc,
                        result |-> DictGet(r.lookups, lookup_name), pre |-> loaded]
       IN resolved(cached_get_lookups(loaded, cls))
    /\ UNCHANGED <<seed, store, prev, raw, parsed>>

\* The names resolved and the names given to register_lookup ("None": the
\* lookup's own lookup_name)
ResolvedNames == { sP, sIn, sContains }
RegisteredAs == { "None", sIn }

\* The classes a caller registers on and resolves on: the base, a variant, a
\* variant of that variant, and a variant of another branch
Variants == { "Field", "ValueField", "ArrayField", "DatasetField" }

RgInit ==
    /\ seed = 0
    /\ raw = PyNone
    /\ store = MkDataset(<<>>)
    /\ loaded = Imported
    /\ call = Idle
    /\ prev = Idle
    /\ parsed = Unread

RgNext ==
    \/ \E cls \in Variants, lookup \in Registrable, name \in RegisteredAs :
            Register(cls, lookup, name)
    \/ \E cls \in Variants, name \in ResolvedNames : Resolve(cls, name)

SpecRegistry == RgInit /\ [][RgNext]_vars

\* The binding of the most specific class of the ancestry of cls whose own
\* class_lookups has the name, "None" when no class has it
RECURSIVE FirstBinding(_, _, _)
FirstBinding(reg, classes, lookup_name) ==
    IF classes = <<>> THEN "None"
    ELSE IF \E p \in reg.class_lookups[Head(classes)] : p[1] = lookup_name
    THEN DictGet(reg.class_lookups[Head(classes)], lookup_name)
    ELSE FirstBinding(reg, Tail(classes), lookup_name)

MostSpecificBinding(reg, cls, lookup_name) == FirstBinding(reg, mro(cls), lookup_name)

\* What resolving the name on the class returns in a state of the classes
Resolution(reg, cls, lookup_name) ==
    DictGet(cached_get_lookups(reg, cls).lookups, lookup_name)

\* C19 as stated: once register_lookup has bound a name to P on a type T,
\* resolving the name on T, and on a subtype of T with no nearer binding of the
\* name, returns P, whenever the registration was made.
C19_RegistrationTakesEffect ==
    (/\ call.op = "get_lookup"
     /\ MostSpecificBinding(call.pre, call.cls, call.name) = "P") =>
        call.result = "P"

\* C20 as stated: resolving a name on a type returns the binding of the most
\* specific type of its ancestry that registered the name, and a registration
\* on a type changes that type's own map only and leaves what the types that
\* do not descend from it resolve.
C20_SpecificityAndIsolation ==
    /\ call.op = "get_lookup" =>
            call.result = MostSpecificBinding(call.pre, call.cls, call.name)
    /\ call.op = "register_lookup" =>
            /\ \A c \in Classes \ { call.cls } :
                    loaded.class_lookups[c] = call.pre.class_lookups[c]
            /\ \A c \in Classes, name \in ResolvedNames :
                    (\A i \in 1..Len(mro(c)) : mro(c)[i] # call.cls) =>
                        Resolution(loaded, c, name) = Resolution(call.pre, c, name)

-----------------------------------------------------------------------------
(* Equality and hash of Record-Sets (specification SpecSets).               *)

\* C21 as stated: two Record-Sets that compare equal have equal hashes.
C21_EqualSetsHashEqual ==
    (call.op = "eq_hash" /\ call.exc = NoExc /\ call.eq) => call.same_hash

-----------------------------------------------------------------------------
(* Equality and hash of Records and of their Values (specification          *)
(* SpecRecords): two Records x and y, each built from its own mapping.      *)

RecRecords ==
    { PyDict(<< << sA, PyInt(1) >> >>),
      PyDict(<< << sA, PyBool(1) >> >>),
      PyDict(<< << sA, PyInt(2) >> >>),
      PyDict(<< << sA, PyStr(<<"1">>) >> >>),
      PyDict(<< << sA, PyInt(1) >>, << sB, PyInt(2) >> >>),
      PyDict(<< << sB, PyInt(2) >>, << sA, PyInt(1) >> >>),
      PyDict(<< << sA, PyList(<< PyInt(1) >>) >> >>),
      PyDict(<< << sN, PyDict(<< << sA, PyInt(1) >>, << sB, PyInt(2) >> >>) >> >>),
      PyDict(<< << sN, PyDict(<< << sB, PyInt(2) >>, << sA, PyInt(1) >> >>) >> >>),
      PyDict(<< << sN, PyDict(<<>>) >> >>),
      PyDict(<< << sA, PyInt(1) >>, << sN, PyDict(<<>>) >> >>),
      PyDict(<< << sN, PyDict(<< << sA, PyList(<< PyInt(1) >>) >> >>) >> >>),
      PyDict(<< << sC, PyList(<< PyDict(<< << sA, PyInt(1) >> >>) >>) >> >>) }

RcInit ==
    /\ seed \in 0..MaxSeed
    /\ raw \in RecRecords \X RecRecords
    /\ store = Node_new(raw[1]).obj
    /\ loaded = Node_new(raw[2]).obj
    /\ call = Idle
    /\ prev = Idle
    /\ parsed = Unread

\* The addresses of x and of y
AtX == <<"x">>
AtY == <<"y">>

\* x == y, then hash(x) == hash(y)
CompareRecords ==
    /\ call.op = "idle"
    /\ LET hashed(eq, e) ==
            call' = [op |-> "node_eq", exc |-> FirstOf(<< eq.exc, e >>), eq |-> eq.obj,
                     same_hash |-> IF e # NoExc THEN FALSE
                                   ELSE SameHash(Node_hash(store, AtX), Node_hash(loaded, AtY))]
       IN hashed(Node_eq(store, loaded, AtX, AtY, seed),
                 FirstOf(<< Node_hash_exc(store), Node_hash_exc(loaded) >>))
    /\ UNCHANGED <<seed, store, loaded, prev, raw, parsed>>

\* f == g, then hash(f) == hash(g), for the i-th field f of x and the j-th g of y
CompareValues(i, j) ==
    /\ call.op = "idle"
    /\ i \in 1..Len(store.fields)
    /\ j \in 1..Len(loaded.fields)
    /\ LET hashed(eq, e) ==
            call' = [op |-> "field_eq", i |-> i, j |-> j,
                     exc |-> FirstOf(<< eq.exc, e >>), eq |-> eq.obj,
                     same_hash |-> IF e # NoExc THEN FALSE
                                   ELSE SameHash(Field_hash(store.fields[i], Sub(AtX, i)),
                                                 Field_hash(loaded.fields[j], Sub(AtY, j)))]
       IN hashed(Field_eq(store.fields[i], loaded.fields[j], Sub(AtX, i), Sub(AtY, j), seed),
                 FirstOf(<< Field_hash_exc(store.fields[i]),
                            Field_hash_exc(loaded.fields[j]) >>))
    /\ UNCHANGED <<seed, store, loaded, prev, raw, parsed>>

\* hash(x), and hash(f) for every field f of x
HashRecord ==
    /\ call.op = "idle"
    /\ call' = [op |-> "hash",
                exc |-> FirstOf(<< Node_hash_exc(store) >>
                                \o [i \in 1..Len(store.fields) |->
                                        Field_hash_exc(store.fields[i])])]
    /\ UNCHANGED <<seed, store, loaded, prev, raw, parsed>>

\* Dataset([x]).filter(name=value) for the name and the value of the i-th
\* field of x, a scalar
FilterRecord(i) ==
    /\ call.op = "idle"
    /\ i \in 1..Len(store.fields)
    /\ store.fields[i].cls = "ValueField"
    /\ LET returned(r) ==
            call' = [op |-> "filter", i |-> i, exc |-> r.exc, kept |-> r.kept]
       IN returned(Dataset_filter(MkDataset(<< store >>),
                                  << << get_name(store.fields[i]),
                                        get_value(store.fields[i]) >> >>, seed))
    /\ UNCHANGED <<seed, store, loaded, prev, raw, parsed>>

\* a = Dataset([x]); b = Dataset([y]); a == b; a.distinct(); a | b
SetOperations ==
    /\ call.op = "idle"
    /\ LET a == Refs(<< store >>, <<"a">>)
           b == Refs(<< loaded >>, <<"b">>)
       IN call' = [op |-> "set_ops",
                   exc |-> FirstOf(<< Dataset_eq(a, b, seed).exc,
                                      Dataset_distinct(a, seed).exc,
                                      Dataset_or(a, b, seed).exc >>)]
    /\ UNCHANGED <<seed, store, loaded, prev, raw, parsed>>

RcNext ==
    \/ CompareRecords
    \/ \E i, j \in 1..2 : CompareValues(i, j)
    \/ HashRecord
    \/ \E i \in 1..2 : FilterRecord(i)
    \/ SetOperations

SpecRecords == RcInit /\ [][RcNext]_vars

\* Equality as the data model defines it: two Values are equal by name and
\* resolved value (Python equality on scalars, element by element on
\* Arrays), two Records iff every Value of one equals a Value of the other,
\* two Record-Collections iff they hold the same Records as a set.
RECURSIVE ValueEqual(_, _)
RECURSIVE RecordEqual(_, _)
RecordsEqual(xs, ys) ==
    /\ \A i \in 1..Len(xs) : \E j \in 1..Len(ys) : RecordEqual(xs[i], ys[j])
    /\ \A j \in 1..Len(ys) : \E i \in 1..Len(xs) : RecordEqual(xs[i], ys[j])

ValueEqual(f, g) ==
    /\ f.cls = g.cls
    /\ f.protected_name__ = g.protected_name__
    /\ IF f.cls = "ValueField" THEN PyEq(f.value, g.value)
       ELSE IF f.cls = "ArrayField"
       THEN /\ Len(f.value) = Len(g.value)
            /\ \A i \in 1..Len(f.value) : ValueEqual(f.value[i], g.value[i])
       ELSE IF f.cls = "NodeField" THEN RecordEqual(f.value, g.value)
       ELSE RecordsEqual(f.value.nodes, g.value.nodes)

RecordEqual(x, y) ==
    /\ \A i \in 1..Len(x.fields) : \E j \in 1..Len(y.fields) :
            ValueEqual(x.fields[i], y.fields[j])
    /\ \A j \in 1..Len(y.fields) : \E i \in 1..Len(x.fields) :
            ValueEqual(x.fields[i], y.fields[j])

\* C22 as stated: x == y exactly when every Value of x equals a Value of y
\* and every Value of y a Value of x, whatever the order of the fields; two
\* Values that compare equal hash equal, and so do two equal Records.
C22_StructuralEquality ==
    /\ (call.op = "node_eq" /\ call.exc = NoExc) =>
            /\ call.eq <=> RecordEqual(store, loaded)
            /\ RecordEqual(store, loaded) => call.same_hash
    /\ (call.op = "field_eq" /\ call.exc = NoExc /\ call.eq) => call.same_hash

\* C23 as stated: the hash of a Record and of each of its Values is computed
\* without an exception, and so are a filter with a valid key, ==, distinct()
\* and | on a Record-Set that holds the Record.
C23_HashingIsTotal ==
    call.op \in {"hash", "filter", "set_ops"} => call.exc = NoExc

-----------------------------------------------------------------------------
(* Attribute access on a Record (specification SpecAttributes).             *)

sValues == <<"v", "a", "l", "u", "e", "s">>
sOnCascade == <<"o", "n", "_", "c", "a", "s", "c", "a", "d", "e">>

\* The names that ordinary attribute lookup finds on a Node, so that
\* __getattr__ is not called: the instance attributes and the methods
NodeAttributes ==
    { <<"f", "i", "e", "l", "d", "s">>, sOnCascade, sValues, <<"f", "i", "l", "t", "e", "r">>, <<"g", "e", "t", "_", "f", "i", "e", "l", "d">>, <<"g", "e", "t", "_", "l", "o", "o", "k", "u", "p">>,
      <<"g", "e", "t", "_", "f", "i", "l", "t", "e", "r", "s">>, <<"g", "e", "t", "_", "n", "o", "d", "e", "_", "f", "i", "l", "t", "e", "r", "s">>, <<"g", "e", "t", "_", "m", "a", "t", "c", "h", "_", "f", "i", "l", "t", "e", "r">>,
      <<"a", "c", "t", "i", "v", "a", "t", "e", "_", "o", "n", "_", "c", "a", "s", "c", "a", "d", "e">> }

BoundMethod(name) == [t |-> "method", n |-> 0, items |-> name]

\* getattr(node, name) for an attribute of the Node itself
Node_attribute(node, name) ==
    IF name = sOnCascade THEN PyBool(IF node.on_cascade THEN 1 ELSE 0)
    ELSE IF name = <<"f", "i", "e", "l", "d", "s">> THEN [t |-> "OrderedDict", n |-> 0, items |-> node.fields]
    ELSE BoundMethod(name)

\* node.<name>: Node.__getattr__ when ordinary lookup finds nothing
Node_getattr(node, name) ==
    IF name \in NodeAttributes THEN Ok(Node_attribute(node, name))
    ELSE LET found(i) ==
                 IF i = 0
                 THEN LET caught(e) == IF e = "FieldNotFound" THEN "AttributeError" ELSE e
                      IN Raise(caught(get_field_exc(node)), PyNone)
                 ELSE IF node.fields[i].value = NoAttribute
                 THEN Raise("AttributeError", PyNone)
                 ELSE Ok(ValueOf(node.fields[i]))
         IN found(FieldIndex(node, name))

\* The records: each of the fields a, b, n, c, values and deserialize is there
\* or not
AtFields ==
    << {<< sA, PyInt(1) >>, << sA, PyStr(<<"x">>) >>},
       {<< sB, PyList(<< PyInt(1), PyInt(2) >>) >>},
       {<< sN, PyDict(<< << sA, PyInt(1) >> >>) >>},
       {<< sC, PyList(<< PyDict(<< << sA, PyInt(1) >> >>) >>) >>},
       {<< sValues, PyInt(1) >>},
       {<< sDeserialize, PyInt(1) >>} >>

RECURSIVE AtItems(_)
AtItems(k) ==
    IF k > Len(AtFields) THEN { <<>> }
    ELSE { head \o rest : head \in { <<>> } \cup { << f >> : f \in AtFields[k] },
                           rest \in AtItems(k + 1) }

AtRecords == { PyDict(items) : items \in AtItems(1) }

AtNames == { sA, sB, sN, sC, sValues, sOnCascade, sXxx }

AtInit ==
    /\ seed \in 0..MaxSeed
    /\ raw \in AtRecords
    /\ store = Node_new(raw).obj
    /\ loaded = store
    /\ call = Idle
    /\ prev = Idle
    /\ parsed = Unread

\* node.<name>
GetAttr(name) ==
    /\ call.op = "idle"
    /\ LET returned(r) ==
            call' = [op |-> "getattr", name |-> name, exc |-> r.exc, result |-> r.obj]
       IN returned(Node_getattr(store, name))
    /\ UNCHANGED <<seed, store, loaded, prev, raw, parsed>>

AtNext == \E name \in AtNames : GetAttr(name)

SpecAttributes == AtInit /\ [][AtNext]_vars

\* values()[name]
ValuesAt(values, name) ==
    values.items[CHOOSE i \in 1..Len(values.items) : values.items[i][1] = name][2]

\* C24 as stated: node.<name> returns node.values()[<name>] when the Record
\* has a field of that name, whatever its variant, and raises AttributeError
\* when it has none.
C24_AttributeAccess ==
    call.op = "getattr" =>
        IF FieldIndex(store, call.name) # 0
        THEN /\ call.exc = NoExc
             /\ Node_values(store).exc = NoExc =>
                    call.result = ValuesAt(Node_values(store).obj, call.name)
        ELSE call.exc = "AttributeError"

-----------------------------------------------------------------------------
(* Several keys forwarded to one Record-Collection (specification           *)
(* SpecConjunction): every Record has a collection c of 1..MaxColl nested   *)
(* Records {b: i, x: j}, and a call passes c__b and c__x together.          *)

CjLeaves ==
    { PyDict(<< << sB, PyInt(i) >>, << sX, PyInt(j) >> >>) : i, j \in 1..MaxInt }

CjColls == { PyList(s) : s \in UNION { [1..k -> CjLeaves] : k \in 1..MaxColl } }

CjRecords == { PyDict(<< << sC, c >> >>) : c \in CjColls }

CjStores == { PyList(s) : s \in UNION { [1..k -> CjRecords] : k \in 1..MaxNodes } }

\* c__b=i, c__x=j in the two orders
CjKwargs ==
    UNION { { << << Join(sC, sB), PyInt(i) >>, << Join(sC, sX), PyInt(j) >> >>,
              << << Join(sC, sX), PyInt(j) >>, << Join(sC, sB), PyInt(i) >> >> } :
            i, j \in 1..MaxInt }

CjInit ==
    /\ seed \in 0..MaxSeed
    /\ raw \in CjStores
    /\ store = Dataset_new(raw).obj
    /\ loaded = store
    /\ call = Idle
    /\ prev = Idle
    /\ parsed = Unread

CjNext ==
    \/ OnCascade
    \/ \E kwargs \in CjKwargs : DoFilter(kwargs)
    \/ Return

SpecConjunction == CjInit /\ [][CjNext]_vars

\* The value the call passed for the key
KwValue(kwargs, key) ==
    kwargs[CHOOSE k \in 1..Len(kwargs) : kwargs[k][1] = key][2]

\* The value of the scalar field of that name
ScalarOf(node, name) == get_value(node.fields[FieldIndex(node, name)])

\* The nested Records of the collection c of the node
NestedOf(node) == get_value(node.fields[FieldIndex(node, sC)]).nodes

\* Some nested Record of c satisfies b and x together
OneSatisfiesAll(node, kwargs) ==
    \E k \in 1..Len(NestedOf(node)) :
        /\ ScalarOf(NestedOf(node)[k], sB) = KwValue(kwargs, Join(sC, sB))
        /\ ScalarOf(NestedOf(node)[k], sX) = KwValue(kwargs, Join(sC, sX))

\* Each of b and x is satisfied by some nested Record of c
EachSatisfied(node, kwargs) ==
    /\ \E k \in 1..Len(NestedOf(node)) :
            ScalarOf(NestedOf(node)[k], sB) = KwValue(kwargs, Join(sC, sB))
    /\ \E k \in 1..Len(NestedOf(node)) :
            ScalarOf(NestedOf(node)[k], sX) = KwValue(kwargs, Join(sC, sX))

\* C25: filter(c__b=i, c__x=j) returns, and keeps a Record exactly when one
\* nested Record of its collection c has b = i and x = j together; a Record
\* whose two keys are satisfied by different nested Records only is dropped.
C25_ConjunctionInOneRecord ==
    call.op = "filter" =>
        /\ call.exc = NoExc
        /\ \A i \in 1..Len(call.pre.nodes) :
                << i >> \in Elems(call.kept) <=> OneSatisfiesAll(call.pre.nodes[i], call.kwargs)

\* A call dropped a Record each of whose keys a different nested Record
\* satisfied, and kept another Record
C25_Witness ==
    /\ call.op = "filter"
    /\ call.exc = NoExc
    /\ \E i \in 1..Len(call.pre.nodes) :
            /\ EachSatisfied(call.pre.nodes[i], call.kwargs)
            /\ ~OneSatisfiesAll(call.pre.nodes[i], call.kwargs)
            /\ << i >> \notin Elems(call.kept)
    /\ call.kept # <<>>

-----------------------------------------------------------------------------
(* What cascade does to the nested collections (specification Spec)         *)

\* s is a subsequence of t
RECURSIVE IsSubseq(_, _)
IsSubseq(s, t) ==
    IF s = <<>> THEN TRUE
    ELSE IF t = <<>> THEN FALSE
    ELSE IF Head(s) = Head(t) THEN IsSubseq(Tail(s), Tail(t))
    ELSE IsSubseq(s, Tail(t))

\* The Records of a sequence without their cascade flags
RECURSIVE Unflagged(_)
Unflagged(nodes) ==
    [i \in 1..Len(nodes) |->
        [f \in 1..Len(nodes[i].fields) |->
            IF nodes[i].fields[f].cls = "DatasetField"
            THEN [nodes[i].fields[f] EXCEPT !.value = Unflagged(@.nodes)]
            ELSE IF nodes[i].fields[f].cls = "NodeField"
            THEN [nodes[i].fields[f] EXCEPT !.value = Unflagged(<< @ >>)[1]]
            ELSE nodes[i].fields[f]]]

\* Every Record-Collection field reachable from the Record `after` holds a
\* subsequence of what it held in `before`, and one that held a Record still
\* holds one
RECURSIVE OnlyShrunk(_, _)
OnlyShrunk(before, after) ==
    \A f \in 1..Len(before.fields) :
        IF before.fields[f].cls = "DatasetField"
        THEN /\ IsSubseq(Unflagged(get_value(after.fields[f]).nodes),
                         Unflagged(get_value(before.fields[f]).nodes))
             /\ get_value(before.fields[f]).nodes # <<>> =>
                    get_value(after.fields[f]).nodes # <<>>
        ELSE IF before.fields[f].cls = "NodeField"
        THEN OnlyShrunk(get_value(before.fields[f]), get_value(after.fields[f]))
        ELSE TRUE

\* Some Record-Collection field reachable from `after` holds fewer Records than
\* in `before`
RECURSIVE HasShrunk(_, _)
HasShrunk(before, after) ==
    \E f \in 1..Len(before.fields) :
        IF before.fields[f].cls = "DatasetField"
        THEN Len(get_value(after.fields[f]).nodes) < Len(get_value(before.fields[f]).nodes)
        ELSE IF before.fields[f].cls = "NodeField"
        THEN HasShrunk(get_value(before.fields[f]), get_value(after.fields[f]))
        ELSE FALSE

\* C26: whatever on_cascade, filter, exclude and filter_related calls were
\* made, every Record-Collection field holds a subsequence of the Records it
\* held when loaded, and is not empty unless it was loaded empty.
C26_CascadeOnlyShrinks ==
    /\ Len(store.nodes) = Len(loaded.nodes)
    /\ \A i \in 1..Len(store.nodes) : OnlyShrunk(loaded.nodes[i], store.nodes[i])

\* A cascading call has dropped nested Records of one Record, and the same
\* call failed another Record, whose collections are as loaded
C26_Witness ==
    /\ call.op \in {"filter", "exclude"}
    /\ call.exc = NoExc
    /\ \E i \in 1..Len(store.nodes) : HasShrunk(loaded.nodes[i], store.nodes[i])
    /\ \E i \in 1..Len(store.nodes) :
            /\ store.nodes[i].on_cascade
            /\ Node_filter(call.pre.nodes[i], call.kwargs, seed).exc = "ObjectNotFound"
            /\ \E f \in 1..Len(store.nodes[i].fields) :
                    /\ store.nodes[i].fields[f].cls = "DatasetField"
                    /\ \E k \in 1..Len(call.kwargs) :
                            StartsWith(call.kwargs[k][1],
                                       Join(get_name(store.nodes[i].fields[f]), sB))

-----------------------------------------------------------------------------
(* The cascade flag over time (specification Spec)                          *)

-----------------------------------------------------------------------------
(* What a call leaves of the Records it did not match (specification Spec)  *)

\* C28 as stated: when filter or exclude returns, every Record of the
\* receiver for which Node.filter signalled no-match has the values() it had
\* before the call.
C28_NoMatchLeavesRecord ==
    (call.op \in {"filter", "exclude"} /\ call.exc = NoExc /\ call.kwargs # <<>>) =>
        \A i \in 1..Len(call.pre.nodes) :
            Node_filter(call.pre.nodes[i], call.kwargs, seed).exc = "ObjectNotFound" =>
                Node_values(store.nodes[i]) = Node_values(call.pre.nodes[i])

-----------------------------------------------------------------------------
(* The lists of the Record-Sets (specification SpecOperands).  A Dataset    *)
(* holds its Records in a list object; `store` is the heap of these lists:  *)
(* la and lb of the two Record-Sets a and b, l1 and l2 for the Datasets the *)
(* calls return.  call.r names the list of the latest result, which is a    *)
(* receiver and an operand of the next call like a and b.                   *)

MaxOps == 2

OpRecords ==
    { PyDict(<< << sA, PyInt(1) >> >>),
      PyDict(<< << sA, PyInt(2) >> >>),
      PyDict(<< << sA, PyInt(1) >>, << sC, PyList(<< Leaf(1), Leaf(2) >>) >> >>) }

OpLists == { PyList(s) : s \in UNION { [1..n -> OpRecords] : n \in 0..MaxNodes } }

OpKwargs == { <<>>, << << sA, PyInt(1) >> >> }

OpInit ==
    /\ seed \in 0..MaxSeed
    /\ raw \in OpLists \X OpLists
    /\ store = [la |-> Refs(Dataset_new(raw[1]).obj.nodes, <<"a">>),
                lb |-> Refs(Dataset_new(raw[2]).obj.nodes, <<"b">>),
                l1 |-> <<>>,
                l2 |-> <<>>]
    /\ loaded = store
    /\ call = [op |-> "idle", recv |-> "none", other |-> "none", kwargs |-> <<>>,
               exc |-> NoExc, r |-> "none", steps |-> 0]
    /\ prev = Idle
    /\ parsed = Unread

\* The lists of the Datasets the caller holds
Operands == {"la", "lb"} \cup (IF call.r = "none" THEN {} ELSE { call.r })

\* The list a call creates
FreshList == IF call.r = "l1" THEN "l2" ELSE "l1"

NodesOf(refs) == [i \in 1..Len(refs) |-> refs[i].node]

\* Dataset.from_nodes: dataset = cls([]); dataset.nodes = nodes
from_nodes(heap, target, refs) == [heap EXCEPT ![target] = refs]

\* Faulty variant of distinct_target: distinct() works on the list of self
distinct_target_self(x, fresh) == x

\* Dataset.distinct: the list of the Dataset it returns is distinct_nodes, a
\* new list
distinct_target(x, fresh) == fresh

\* The call on the Dataset of list x ended with exc, its result of list r
Done(op, x, y, kwargs, exc, r) ==
    [op |-> op, recv |-> x, other |-> y, kwargs |-> kwargs, exc |-> exc, r |-> r,
     steps |-> call.steps + 1]

\* x.filter(**kwargs)
OpFilter(x, kwargs) ==
    /\ call.steps < MaxOps
    /\ x \in Operands
    /\ LET returned(r) ==
            IF r.exc # NoExc
            THEN /\ store' = store
                 /\ call' = Done("filter", x, x, kwargs, r.exc, call.r)
            ELSE /\ store' = from_nodes(store, FreshList, Pick(store[x], r.kept))
                 /\ call' = Done("filter", x, x, kwargs, NoExc, FreshList)
       IN returned(Dataset_filter(MkDataset(NodesOf(store[x])), kwargs, seed))
    /\ UNCHANGED <<seed, loaded, prev, raw, parsed>>

\* x.exclude(**kwargs): without kwargs the receiver itself
OpExclude(x, kwargs) ==
    /\ call.steps < MaxOps
    /\ x \in Operands
    /\ LET returned(r) ==
            IF r.exc # NoExc
            THEN /\ store' = store
                 /\ call' = Done("exclude", x, x, kwargs, r.exc, call.r)
            ELSE IF kwargs = <<>>
            THEN /\ store' = store
                 /\ call' = Done("exclude", x, x, kwargs, NoExc, x)
            ELSE /\ store' = from_nodes(store, FreshList, Pick(store[x], r.kept))
                 /\ call' = Done("exclude", x, x, kwargs, NoExc, FreshList)
       IN returned(Dataset_exclude(MkDataset(NodesOf(store[x])), kwargs, seed))
    /\ UNCHANGED <<seed, loaded, prev, raw, parsed>>

\* x.distinct()
OpDistinct(x) ==
    /\ call.steps < MaxOps
    /\ x \in Operands
    /\ LET returned(r, target) ==
            IF r.exc # NoExc
            THEN /\ store' = store
                 /\ call' = Done("distinct", x, x, <<>>, r.exc, call.r)
            ELSE /\ store' = from_nodes(store, target, r.obj)
                 /\ call' = Done("distinct", x, x, <<>>, NoExc, target)
       IN returned(Dataset_distinct(store[x], seed), distinct_target(x, FreshList))
    /\ UNCHANGED <<seed, loaded, prev, raw, parsed>>

\* x | y: dataset = self.distinct(), then dataset.nodes.append(node) for the
\* nodes of y that dataset does not hold
OpOr(x, y) ==
    /\ call.steps < MaxOps
    /\ x \in Operands
    /\ y \in Operands
    /\ LET appended(heap, target, r) ==
            /\ store' = from_nodes(heap, target, r.obj)
            /\ call' = Done("or", x, y, <<>>, r.exc, IF r.exc # NoExc THEN call.r ELSE target)
           distinct(d, target) ==
            IF d.exc # NoExc
            THEN /\ store' = store
                 /\ call' = Done("or", x, y, <<>>, d.exc, call.r)
            ELSE appended(from_nodes(store, target, d.obj), target,
                          append_missing(from_nodes(store, target, d.obj)[y], seed, 1, d.obj))
       IN distinct(Dataset_distinct(store[x], seed), distinct_target(x, FreshList))
    /\ UNCHANGED <<seed, loaded, prev, raw, parsed>>

\* The address of the related node at the path <<i, f, j>>: the j-th node of
\* the f-th field of the i-th node
RelatedAt(refs, path) == Sub(Sub(refs[path[1]].at, path[2]), path[3])

\* x.filter_related("c", **kwargs)
OpFilterRelated(x, kwargs) ==
    /\ call.steps < MaxOps
    /\ x \in Operands
    /\ LET returned(r) ==
            IF r.exc # NoExc
            THEN /\ store' = store
                 /\ call' = Done("filter_related", x, x, kwargs, r.exc, call.r)
            ELSE /\ store' = from_nodes(store, FreshList,
                                [k \in 1..Len(r.kept) |->
                                    Ref(RelatedAt(store[x], r.kept[k]),
                                        NodeAt(r.nodes, r.kept[k]))])
                 /\ call' = Done("filter_related", x, x, kwargs, NoExc, FreshList)
       IN returned(Dataset_filter_related(MkDataset(NodesOf(store[x])), sC, kwargs, seed))
    /\ UNCHANGED <<seed, loaded, prev, raw, parsed>>

OpNext ==
    \/ \E x \in {"la", "lb", "l1", "l2"}, kwargs \in OpKwargs : OpFilter(x, kwargs)
    \/ \E x \in {"la", "lb", "l1", "l2"}, kwargs \in OpKwargs : OpExclude(x, kwargs)
    \/ \E x \in {"la", "lb", "l1", "l2"} : OpDistinct(x)
    \/ \E x, y \in {"la", "lb", "l1", "l2"} : OpOr(x, y)
    \/ \E x \in {"la", "lb", "l1", "l2"} :
            OpFilterRelated(x, << << sB, PyInt(1) >> >>)

SpecOperands == OpInit /\ [][OpNext]_vars

\* C29: a call leaves the list of every Record-Set the caller holds as it
\* was, the same Records in the same order, and what filter and exclude
\* return is a subsequence of the receiver's Records in the receiver's order.
C29_OperandsUnchanged ==
    [][/\ \A l \in Operands : store'[l] = store[l]
       /\ (call'.op \in {"filter", "exclude"} /\ call'.exc = NoExc) =>
                IsSubseq(store'[call'.r], store[call'.recv])]_vars

\* A union whose receiver was the result of an earlier call returned more
\* Records than its receiver holds, and a and b hold duplicates that the
\* result does not
C29_Witness ==
    /\ call.op = "or"
    /\ call.exc = NoExc
    /\ call.recv \in {"l1", "l2"}
    /\ Len(store[call.r]) > Len(store[call.recv])
    /\ Len(store[call.other]) > 1

====
